---------------------------- MODULE Spec2Model ----------------------------
(***************************************************************************)
(* Verification model of the Montpellier Transports itinerary core:        *)
(* Service calendar, scan-result buffers, JourneyFactory, the arrive-by    *)
(* group-station query and the trip re-matching of POST /itineraire/delay. *)
(*                                                                         *)
(* Conventions for JavaScript values:                                      *)
(*   - an object / Record is a TLA+ function; Object.keys is DOMAIN;       *)
(*     reading a missing property yields `undefined`;                      *)
(*   - a Date is the number of seconds since local midnight of day 0 of    *)
(*     the model calendar (day 0 = 2024-12-31, a Tuesday);                 *)
(*   - an operation that can throw returns [threw |-> .., value |-> ..].   *)
(***************************************************************************)
EXTENDS Integers, Sequences, FiniteSets, TLC

VARIABLES
  \* --- Service.runsOn (one call)
  svc, svcDate, svcDow, svcOut, svcPc,
  \* --- a scan buffer filled by its callers, then read by JourneyFactory
  scanResults, facOrigins, facReverse, facStop, facOut, facPc,
  \* --- GroupStationArriveByQuery.plan: its arguments, the locals of
  \*     getJourneys, the result, and a log of what each day's scan found
  planOrigins, planDestinations, planTime, maxSearchDays,
  startDate, destinations, connectionIndexes, planI, planOut, planLog, planPc,
  \* --- findMatchingTrip (one call): its arguments and its result
  fmStopSequence, fmLigneId, fmDirectionId, fmDate, fmPartir, fmOut, fmPc,
  \* --- POST /itineraire/delay (one request): the body, the planned journey
  \*     the legs were taken from (if any), the response, and the values
  \*     findMatchingTrip returned, in call order
  delayTripDetails, delayPartir, delayNewDate, delayPlanned, delayRes,
  delayMatches, delayPc,
  \* --- the body of the request as the client sent it
  delayBody,
  \* --- loadGTFS (one call): the parsed feed files and the result
  feed, loadOut, loadPc,
  \* --- formatTransfers: the transfers read from imports/GTFS/transfers.json
  \*     and the list makeTransfersReciprocal returned
  rawTransfers, reciprocalTransfers, reciprocalPc

svcVars == <<svc, svcDate, svcDow, svcOut, svcPc>>
facVars == <<scanResults, facOrigins, facReverse, facStop, facOut, facPc>>
planVars == <<planOrigins, planDestinations, planTime, maxSearchDays,
              startDate, destinations, connectionIndexes, planI, planOut, planLog, planPc>>
matchVars == <<fmStopSequence, fmLigneId, fmDirectionId, fmDate, fmPartir, fmOut, fmPc>>
delayVars == <<delayTripDetails, delayPartir, delayNewDate, delayPlanned, delayRes,
               delayMatches, delayPc, delayBody>>
loadVars == <<feed, loadOut, loadPc>>
reciprocalVars == <<rawTransfers, reciprocalTransfers, reciprocalPc>>
vars == <<svcVars, facVars, planVars, matchVars, delayVars, loadVars, reciprocalVars>>

undefined == "undefined"
DAY == 86400

(***************************************************************************)
(* Calendar / Service                                                      *)
(***************************************************************************)
\* number of consecutive calendar dates the Service inputs are drawn from
NumDates == 3
DateNumbers == { 20250101 + n : n \in 0..(NumDates - 1) }
DaysOfWeek == 0..6

\* days: Record<DayOfWeek, boolean> built from the set of running weekdays
Mask(S) == [d \in DaysOfWeek |-> d \in S]

\* obj.hasOwnProperty(key)
hasOwnProperty(obj, key) == key \in DOMAIN obj
\* obj[key] used as a condition: a missing entry is undefined, which is falsy
truthyAt(obj, key) == IF key \in DOMAIN obj THEN obj[key] ELSE FALSE

runsOn_noExclude(s, date, dow) ==
  truthyAt(s.dates, date) \/
    (s.startDate <= date /\ s.endDate >= date /\ s.days[dow])

\* Service.runsOn(date, dow)
runsOn(s, date, dow) ==
  truthyAt(s.dates, date) \/
    ( ~hasOwnProperty(s.dates, date) /\
      s.startDate <= date /\
      s.endDate >= date /\
      s.days[dow] )

WeekdaySets == { {}, {3}, {3, 4}, DaysOfWeek }
DateIndexes == UNION { [D -> BOOLEAN] : D \in SUBSET DateNumbers }
Services ==
  [ startDate : DateNumbers, endDate : DateNumbers,
    days : { Mask(S) : S \in WeekdaySets }, dates : DateIndexes ]

FacIdle ==
  /\ scanResults = "idle" /\ facOrigins = <<>> /\ facReverse = FALSE /\ facStop = undefined
  /\ facOut = undefined /\ facPc = "idle"

PlanIdle ==
  /\ planOrigins = <<>> /\ planDestinations = <<>> /\ planTime = 0
  /\ maxSearchDays = 0 /\ startDate = 0 /\ destinations = <<>>
  /\ connectionIndexes = <<>> /\ planI = 0 /\ planOut = undefined
  /\ planLog = <<>> /\ planPc = "idle"

MatchIdle ==
  /\ fmStopSequence = <<>> /\ fmLigneId = 0 /\ fmDirectionId = 0 /\ fmDate = 0
  /\ fmPartir = FALSE /\ fmOut = undefined /\ fmPc = "idle"

DelayIdle ==
  /\ delayTripDetails = <<>> /\ delayPartir = FALSE /\ delayNewDate = 0
  /\ delayPlanned = <<>> /\ delayRes = undefined /\ delayMatches = <<>>
  /\ delayPc = "idle" /\ delayBody = <<>>

LoadIdle == feed = <<>> /\ loadOut = undefined /\ loadPc = "idle"

ReciprocalIdle ==
  rawTransfers = <<>> /\ reciprocalTransfers = undefined /\ reciprocalPc = "idle"

SvcInit ==
  /\ FacIdle /\ PlanIdle /\ MatchIdle /\ DelayIdle /\ LoadIdle /\ ReciprocalIdle
  /\ svc \in Services
  /\ svcDate \in DateNumbers
  /\ svcDow \in {3, 4, 5}
  /\ svcOut = undefined
  /\ svcPc = "call"

SvcIdle ==
  /\ svc = "idle" /\ svcDate = 0 /\ svcDow = 0 /\ svcOut = undefined
  /\ svcPc = "idle"

CallRunsOn ==
  /\ svcPc = "call"
  /\ svcOut' = runsOn(svc, svcDate, svcDow)
  /\ svcPc' = "done"
  /\ UNCHANGED <<svc, svcDate, svcDow>>
  /\ UNCHANGED <<facVars, planVars, matchVars, delayVars, loadVars, reciprocalVars>>

SvcNext == CallRunsOn

SpecService == SvcInit /\ [][SvcNext]_vars

\* C1: runsOn is true iff the exception index maps the date to true, or the
\* index has no entry for the date and the date lies in [startDate, endDate]
\* on a weekday of the mask; an entry mapped to false forces false, an entry
\* mapped to true forces true even outside the range.
C1_RunsOnContract ==
  svcPc = "done" =>
    /\ svcOut \in BOOLEAN
    /\ svcOut <=>
         \/ (svcDate \in DOMAIN svc.dates /\ svc.dates[svcDate] = TRUE)
         \/ ( svcDate \notin DOMAIN svc.dates
              /\ svc.startDate <= svcDate /\ svcDate <= svc.endDate
              /\ svc.days[svcDow] = TRUE )
    /\ (svcDate \in DOMAIN svc.dates /\ svc.dates[svcDate] = FALSE => svcOut = FALSE)
    /\ (svcDate \in DOMAIN svc.dates /\ svc.dates[svcDate] = TRUE => svcOut = TRUE)

\* an excluded date inside the range on a running weekday has been evaluated
C1_Witness ==
  /\ svcPc = "done"
  /\ svcDate \in DOMAIN svc.dates /\ svc.dates[svcDate] = FALSE
  /\ svc.startDate <= svcDate /\ svcDate <= svc.endDate /\ svc.days[svcDow]
  /\ svcOut = FALSE


(***************************************************************************)
(* Timetable (the value loadGTFS hands to the engine)                      *)
(***************************************************************************)
MIN_INTERCHANGE_TIME == 120
\* Number.MAX_SAFE_INTEGER / MIN_SAFE_INTEGER scaled into TLC's integer range:
\* larger than every time of the model, with room for + 86400 and + duration
MAX_SAFE_INTEGER == 1000000000
MIN_SAFE_INTEGER == -1000000000

Max(a, b) == IF a >= b THEN a ELSE b
Min(a, b) == IF a <= b THEN a ELSE b

\* StopTime (stopId, arrivalTime, departureTime); the remaining fields of the
\* interface (tripId, stopSequence, pickUp, dropOff, headsign) are not read
\* by the modelled code
ST(stop, arr, dep) == [stopId |-> stop, arrivalTime |-> arr, departureTime |-> dep]

AllDays == Mask(DaysOfWeek)
SvcDaily == [startDate |-> 20241201, endDate |-> 20250131, days |-> AllDays, dates |-> <<>>]
SvcWedOnly == [startDate |-> 20241201, endDate |-> 20250131, days |-> Mask({3}), dates |-> <<>>]

\* trips as loadGTFS builds them: id, routeId and directionId are strings
T11 == [id |-> "11", routeId |-> "1", directionId |-> "0", service |-> SvcDaily,
        stopTimes |-> << ST("1", 28800, 28800), ST("2", 29100, 29160), ST("3", 29400, 29400) >>]
T12 == [id |-> "12", routeId |-> "1", directionId |-> "0", service |-> SvcDaily,
        stopTimes |-> << ST("1", 32400, 32400), ST("2", 32700, 32760), ST("3", 33000, 33000) >>]
\* express variant of route 1 (skips stop 2), Wednesdays only
T13 == [id |-> "13", routeId |-> "1", directionId |-> "0", service |-> SvcWedOnly,
        stopTimes |-> << ST("1", 25200, 25200), ST("3", 25680, 25680) >>]
T21 == [id |-> "21", routeId |-> "2", directionId |-> "0", service |-> SvcDaily,
        stopTimes |-> << ST("3", 30000, 30000), ST("4", 30600, 30600) >>]
\* after-midnight departure (24:10:00) of the Wednesday service day
T22 == [id |-> "22", routeId |-> "2", directionId |-> "0", service |-> SvcWedOnly,
        stopTimes |-> << ST("3", 87000, 87000), ST("4", 87600, 87600) >>]
\* loop line: visits stop 2 twice
T31 == [id |-> "31", routeId |-> "3", directionId |-> "0", service |-> SvcDaily,
        stopTimes |-> << ST("2", 36000, 36000), ST("1", 36300, 36300), ST("2", 36600, 36600) >>]
\* late evening feeder into stop 3
T51 == [id |-> "51", routeId |-> "5", directionId |-> "0", service |-> SvcDaily,
        stopTimes |-> << ST("5", 82800, 82800), ST("3", 83400, 83400) >>]

\* a trip that waits 8 min 20 s at stop 3 (a timing point); it is used to
\* drive the scan buffer only
T41 == [id |-> "41", routeId |-> "4", directionId |-> "0", service |-> SvcDaily,
        stopTimes |-> << ST("5", 29000, 29000), ST("3", 29700, 30200), ST("4", 30800, 30800) >>]

\* a later way from stop 3 to stop 4, changing at stop 7
T71 == [id |-> "71", routeId |-> "7", directionId |-> "0", service |-> SvcDaily,
        stopTimes |-> << ST("3", 30250, 30250), ST("7", 30350, 30350) >>]
T81 == [id |-> "81", routeId |-> "8", directionId |-> "0", service |-> SvcDaily,
        stopTimes |-> << ST("7", 30400, 30400), ST("4", 30550, 30550) >>]

\* a night network around stops 20..25: shortly after midnight a slow line
\* 21 -> 22 -> 20 (trip 201) and a fast line 21 -> 22 (trip 211); at the
\* service day's end (24:25:00, 24:29:10) a slow line 23 -> 25 -> 21 (trip
\* 221) and a fast line 23 -> 25 (trip 231)
nightTrips ==
  << [id |-> "201", routeId |-> "20", directionId |-> "0", service |-> SvcDaily,
      stopTimes |-> << ST("21", 1600, 1600), ST("22", 2000, 2000), ST("20", 2100, 2100) >>],
     [id |-> "211", routeId |-> "21", directionId |-> "0", service |-> SvcDaily,
      stopTimes |-> << ST("21", 1850, 1850), ST("22", 1950, 1950) >>],
     [id |-> "221", routeId |-> "22", directionId |-> "0", service |-> SvcDaily,
      stopTimes |-> << ST("23", 87900, 87900), ST("25", 88230, 88230), ST("21", 88250, 88250) >>],
     [id |-> "231", routeId |-> "23", directionId |-> "0", service |-> SvcDaily,
      stopTimes |-> << ST("23", 88150, 88150), ST("25", 88220, 88220) >> ] >>

tripsData == << T11, T12, T13, T21, T22, T31, T51, T71, T81 >> \o nightTrips

\* the elements of an array
elements(array) == { array[n] : n \in DOMAIN array }

\* every stop of the timetable, in first-seen order (the stops handed to
\* ScanResultsFactory)
stops == << "1", "2", "3", "4", "5", "6", "7", "20", "21", "22", "23", "24", "25" >>
StopSet == { stops[n] : n \in DOMAIN stops }

Transfer(o, d, dur) ==
  [origin |-> o, destination |-> d, duration |-> dur,
   startTime |-> 0, endTime |-> MAX_SAFE_INTEGER]
\* transfersByOrigin
transfersData == ( "3" :> << Transfer("3", "6", 300) >> ) @@
                 ( "6" :> << Transfer("6", "3", 300) >> ) @@
                 ( "21" :> << Transfer("21", "23", 600) >> ) @@
                 ( "23" :> << Transfer("23", "21", 600), Transfer("23", "24", 200) >> ) @@
                 ( "24" :> << Transfer("24", "23", 200) >> )
\* interchange: only stops with a self-transfer row have an entry
interchangeData == ( "4" :> 0 )

(***************************************************************************)
(* JavaScript helpers                                                      *)
(***************************************************************************)
Ok(v) == [threw |-> FALSE, value |-> v]
TypeError == [threw |-> TRUE, value |-> "TypeError"]

\* const x = v; ... x ...: the value is computed once and then named
bind(v, F(_)) == CHOOSE out \in { F(x) : x \in {v} } : TRUE

\* a[key] (undefined when the key is missing)
Prop(a, key) == IF key \in DOMAIN a THEN a[key] ELSE undefined
\* a record / function with one more (or one replaced) entry: a[key] = v
Assign(a, key, v) == (key :> v) @@ a
\* Array.prototype.slice(from, to) on a 0-based array held as a sequence
slice(s, from, to) ==
  LET f == IF from < 0 THEN Max(Len(s) + from, 0) ELSE Min(from, Len(s))
      e == IF to < 0 THEN Max(Len(s) + to, 0) ELSE Min(to, Len(s))
  IN  SubSeq(s, f + 1, e)
RECURSIVE reverseSeq(_)
reverseSeq(s) == IF s = <<>> THEN <<>> ELSE Append(reverseSeq(Tail(s)), Head(s))
\* the keys of a record of rounds, in ascending order (Object.keys on
\* integer-like keys)
RECURSIVE sortedKeys(_)
sortedKeys(S) ==
  IF S = {} THEN <<>>
  ELSE LET m == CHOOSE x \in S : \A y \in S : x <= y
       IN  <<m>> \o sortedKeys(S \ {m})

(***************************************************************************)
(* ScanResultsFactory and ScanResults (the per-query scan buffer)          *)
(***************************************************************************)
\* origins[stop] || fallback  (an origin time of 0 is falsy)
orElse(origins, stop, fallback) ==
  IF stop \in DOMAIN origins /\ origins[stop] # 0 THEN origins[stop] ELSE fallback

\* new ScanResults(bestArrivals, kArrivals, kConnections, reverse = false)
ScanResults(bestArrivals, kArrivals, kConnections, reverse) ==
  [ bestArrivals |-> bestArrivals, kArrivals |-> kArrivals,
    kConnections |-> kConnections, reverse |-> reverse, k |-> 0 ]

\* ScanResultsFactory.create(origins, reverse): the reverse argument selects
\* the initial values only; it is not handed to the ScanResults constructor
create(origins, reverse) ==
  LET worst == IF reverse THEN MIN_SAFE_INTEGER ELSE MAX_SAFE_INTEGER
      arrivals == [s \in StopSet |-> orElse(origins, s, worst)]
  IN  ScanResults(arrivals, (0 :> arrivals), [s \in StopSet |-> <<>>], FALSE)

\* ScanResults.addRound
addRound(r) ==
  [r EXCEPT !.k = r.k + 1, !.kArrivals = Assign(r.kArrivals, r.k + 1, <<>>)]

\* ScanResults.getArrival: the arrival of the previous round (may be undefined)
getArrival(r, stopPi) == Prop(r.kArrivals[r.k - 1], stopPi)

\* the three assignments shared by setTrip and setTransfer
record(r, stopPi, time, connection) ==
  [r EXCEPT !.kArrivals = Assign(r.kArrivals, r.k, Assign(r.kArrivals[r.k], stopPi, time)),
            !.bestArrivals = Assign(r.bestArrivals, stopPi, time),
            !.kConnections =
               Assign(r.kConnections, stopPi, Assign(r.kConnections[stopPi], r.k, connection))]

\* a Connection [trip, startIndex, endIndex]; indices are 0-based as in the
\* source
Connection(trip, startIndex, endIndex) ==
  [trip |-> trip, start |-> startIndex, end |-> endIndex]

\* ScanResults.setTrip
setTrip(r, trip, startIndex, endIndex, interchange) ==
  LET time == IF r.reverse
                THEN trip.stopTimes[startIndex + 1].departureTime - interchange
                ELSE trip.stopTimes[endIndex + 1].arrivalTime + interchange
      stopPi == IF r.reverse THEN trip.stopTimes[startIndex + 1].stopId
                             ELSE trip.stopTimes[endIndex + 1].stopId
  IN  record(r, stopPi, time, Connection(trip, startIndex, endIndex))

\* ScanResults.setTransfer
setTransfer(r, transfer, time) == record(r, transfer.destination, time, transfer)

bestArrival(r, stopPi) == r.bestArrivals[stopPi]
getMarkedStops(r) == DOMAIN r.kArrivals[r.k]
finalize(r) == << r.kConnections, r.bestArrivals >>

(***************************************************************************)
(* JourneyFactory                                                          *)
(***************************************************************************)
\* isTransfer(connection): (connection as Transfer).origin !== undefined
isTransfer(connection) == "origin" \in DOMAIN connection
\* isTimetableLeg(leg): (leg as TimetableLeg).stopTimes !== undefined
isTimetableLeg(leg) == "stopTimes" \in DOMAIN leg

TimetableLeg(stopTimes, origin, destination, trip) ==
  [stopTimes |-> stopTimes, origin |-> origin, destination |-> destination, trip |-> trip]

\* kConnections[stop][i] followed by isTransfer(connection): a TypeError when
\* the stop has no entry in the index (property of undefined) or the round
\* has no connection (isTransfer reads .origin of undefined)
connectionAt(kConnections, stop, i) ==
  IF stop \notin DOMAIN kConnections THEN TypeError
  ELSE IF i \notin DOMAIN kConnections[stop] THEN TypeError
  ELSE Ok(kConnections[stop][i])

\* JourneyFactory.getJourneyLegs: walks back from finalDestination, one
\* connection per round; the origin of a timetable leg is read from the
\* property `stop` of its first StopTime
getJourneyLegs(kConnections, k, finalDestination) ==
  LET RECURSIVE walk(_, _, _)
      walk(destination, i, legs) ==
        IF i <= 0 THEN Ok(reverseSeq(legs))
        ELSE bind(connectionAt(kConnections, destination, i), LAMBDA c :
          IF c.threw THEN TypeError
          ELSE IF isTransfer(c.value)
            THEN walk(c.value.origin, i - 1, Append(legs, c.value))
          ELSE bind(slice(c.value.trip.stopTimes, c.value.start, c.value.end + 1),
                    LAMBDA stopTimes :
            IF stopTimes = <<>> THEN TypeError
            ELSE bind(Prop(stopTimes[1], "stop"), LAMBDA origin :
                   walk(origin, i - 1,
                        Append(legs, TimetableLeg(stopTimes, origin, destination,
                                                  c.value.trip))))))
  IN  walk(finalDestination, k, <<>>)

\* JourneyFactory.getReverseJourneyLegs: walks forward from initialOrigin
getReverseJourneyLegs(kConnections, k, initialOrigin) ==
  LET RECURSIVE walk(_, _, _)
      walk(origin, i, legs) ==
        IF i <= 0 THEN Ok(legs)
        ELSE bind(connectionAt(kConnections, origin, i), LAMBDA c :
          IF c.threw THEN TypeError
          ELSE IF isTransfer(c.value)
            THEN walk(c.value.origin, i - 1, Append(legs, c.value))
          ELSE bind(slice(c.value.trip.stopTimes, c.value.end, c.value.start + 1),
                    LAMBDA stopTimes :
            IF stopTimes = <<>> THEN TypeError
            ELSE bind(Prop(stopTimes[Len(stopTimes)], "stop"), LAMBDA destination :
                   walk(destination, i - 1,
                        Append(legs, TimetableLeg(stopTimes, destination, origin,
                                                  c.value.trip))))))
  IN  walk(initialOrigin, k, <<>>)

getDepartureTime_ignoreTransfers(legs) ==
  LET tt == SelectSeq(legs, isTimetableLeg)
  IN  IF tt = <<>> THEN 0 ELSE tt[1].stopTimes[1].departureTime

\* JourneyFactory.getDepartureTime
getDepartureTime(legs) ==
  LET RECURSIVE scan(_, _)
      scan(n, transferDuration) ==
        IF n > Len(legs) THEN 0
        ELSE IF ~isTimetableLeg(legs[n]) THEN scan(n + 1, transferDuration + legs[n].duration)
        ELSE legs[n].stopTimes[1].departureTime - transferDuration
  IN  scan(1, 0)

\* JourneyFactory.getArrivalTime
getArrivalTime(legs) ==
  LET RECURSIVE scan(_, _)
      scan(n, transferDuration) ==
        IF n < 1 THEN 0
        ELSE IF ~isTimetableLeg(legs[n]) THEN scan(n - 1, transferDuration + legs[n].duration)
        ELSE legs[n].stopTimes[Len(legs[n].stopTimes)].arrivalTime + transferDuration
  IN  scan(Len(legs), 0)

Journey(legs) ==
  [legs |-> legs, departureTime |-> getDepartureTime(legs), arrivalTime |-> getArrivalTime(legs)]

\* the loop shared by getResults and getReverseResults: one journey per round
\* key of kConnections[stop] || {}; an exception of the leg walk propagates
journeysOf(kConnections, stop, reverse) ==
  LET keys == sortedKeys(IF stop \in DOMAIN kConnections THEN DOMAIN kConnections[stop] ELSE {})
      RECURSIVE build(_, _)
      build(n, acc) ==
        IF n > Len(keys) THEN Ok(acc)
        ELSE bind(IF reverse THEN getReverseJourneyLegs(kConnections, keys[n], stop)
                             ELSE getJourneyLegs(kConnections, keys[n], stop),
                  LAMBDA legs : IF legs.threw THEN TypeError
                                ELSE build(n + 1, Append(acc, Journey(legs.value))))
  IN  build(1, <<>>)

\* JourneyFactory.getResults
getResults(kConnections, destination) == journeysOf(kConnections, destination, FALSE)
\* JourneyFactory.getReverseResults
getReverseResults(kConnections, origin) == journeysOf(kConnections, origin, TRUE)

(***************************************************************************)
(* A scan buffer driven through its public operations, read by the         *)
(* JourneyFactory                                                          *)
(***************************************************************************)
\* rounds added to one buffer
MaxK == 2
\* stops marked in one round
MaxMarks == 2
\* the trips the buffer is driven with
FactoryTrips == { T11, T21, T41, T71, T81 }
\* the origin times of a scan; 0 is midnight
OriginMaps ==
  { ("1" :> 28000), ("1" :> 28000) @@ ("3" :> 29000), ("2" :> 29000),
    ("4" :> 31000), ("3" :> 30000), ("3" :> 30000) @@ ("4" :> 31000),
    ("1" :> 0) @@ ("3" :> 29000) }

\* interchange time of a stop: the loaded entry, else the default
interchangeOf(stop) ==
  IF stop \in DOMAIN interchangeData THEN interchangeData[stop] ELSE MIN_INTERCHANGE_TIME

AllTransfers ==
  UNION { { transfersData[o][n] : n \in DOMAIN transfersData[o] } : o \in DOMAIN transfersData }

FacInit ==
  /\ SvcIdle /\ PlanIdle /\ MatchIdle /\ DelayIdle /\ LoadIdle /\ ReciprocalIdle
  /\ facReverse \in BOOLEAN
  /\ facOrigins \in OriginMaps
  /\ scanResults = create(facOrigins, facReverse)
  /\ facStop = undefined
  /\ facOut = undefined
  /\ facPc = "scan"

FacAddRound ==
  /\ facPc = "scan"
  /\ scanResults.k < MaxK
  /\ scanResults' = addRound(scanResults)
  /\ UNCHANGED <<facOrigins, facReverse, facStop, facOut, facPc>>
  /\ UNCHANGED <<svcVars, planVars, matchVars, delayVars, loadVars, reciprocalVars>>

\* the value a scanner compares a candidate time with: earlier is better
\* when scanning forward, later when scanning backward
improves(r, reverse, stop, time) ==
  IF reverse THEN time > bestArrival(r, stop) ELSE time < bestArrival(r, stop)

\* the stop was reached in the previous round
reachedBefore(r, reverse, stop) ==
  /\ stop \in DOMAIN r.kArrivals[r.k - 1]
  /\ getArrival(r, stop) # (IF reverse THEN MIN_SAFE_INTEGER ELSE MAX_SAFE_INTEGER)

\* a scanner records a trip segment it could board at a stop reached in the
\* previous round (index s) and that improves the stop at index e: s before
\* e when scanning forward, after it when scanning backward
FacSetTrip ==
  /\ facPc = "scan"
  /\ scanResults.k >= 1
  /\ Cardinality(getMarkedStops(scanResults)) < MaxMarks
  /\ \E trip \in FactoryTrips :
       \E s, e \in 0..(Len(trip.stopTimes) - 1) :
         LET st == trip.stopTimes
             board == st[s + 1].stopId
             stopPi == st[e + 1].stopId
         IN  /\ IF facReverse THEN s > e ELSE s < e
             /\ reachedBefore(scanResults, facReverse, board)
             /\ IF facReverse
                  THEN /\ st[s + 1].arrivalTime <= getArrival(scanResults, board) - interchangeOf(board)
                       /\ improves(scanResults, TRUE, stopPi,
                                   st[e + 1].departureTime - interchangeOf(stopPi))
                  ELSE /\ st[s + 1].departureTime >= getArrival(scanResults, board) + interchangeOf(board)
                       /\ improves(scanResults, FALSE, stopPi,
                                   st[e + 1].arrivalTime + interchangeOf(stopPi))
             /\ scanResults' = setTrip(scanResults, trip, s, e, interchangeOf(stopPi))
  /\ UNCHANGED <<facOrigins, facReverse, facStop, facOut, facPc>>
  /\ UNCHANGED <<svcVars, planVars, matchVars, delayVars, loadVars, reciprocalVars>>

\* a scanner records a foot transfer out of a stop a trip marked in this
\* round, when it improves the stop at the other end
FacSetTransfer ==
  /\ facPc = "scan"
  /\ scanResults.k >= 1
  /\ Cardinality(getMarkedStops(scanResults)) < MaxMarks
  /\ \E t \in AllTransfers :
       /\ t.origin \in getMarkedStops(scanResults)
       /\ ~isTransfer(scanResults.kConnections[t.origin][scanResults.k])
       /\ LET time == IF facReverse
                        THEN scanResults.kArrivals[scanResults.k][t.origin] - t.duration
                        ELSE scanResults.kArrivals[scanResults.k][t.origin] + t.duration
          IN  /\ improves(scanResults, facReverse, t.destination, time)
              /\ scanResults' = setTransfer(scanResults, t, time)
  /\ UNCHANGED <<facOrigins, facReverse, facStop, facOut, facPc>>
  /\ UNCHANGED <<svcVars, planVars, matchVars, delayVars, loadVars, reciprocalVars>>

FacGetResults ==
  /\ facPc = "scan"
  /\ ~facReverse
  /\ \E destination \in StopSet :
       /\ facStop' = destination
       /\ facOut' = getResults(finalize(scanResults)[1], destination)
  /\ facPc' = "done"
  /\ UNCHANGED <<scanResults, facOrigins, facReverse>>
  /\ UNCHANGED <<svcVars, planVars, matchVars, delayVars, loadVars, reciprocalVars>>

FacGetReverseResults ==
  /\ facPc = "scan"
  /\ facReverse
  /\ \E origin \in StopSet :
       /\ facStop' = origin
       /\ facOut' = getReverseResults(finalize(scanResults)[1], origin)
  /\ facPc' = "done"
  /\ UNCHANGED <<scanResults, facOrigins, facReverse>>
  /\ UNCHANGED <<svcVars, planVars, matchVars, delayVars, loadVars, reciprocalVars>>

FacNext ==
  \/ FacAddRound
  \/ FacSetTrip
  \/ FacSetTransfer
  \/ FacGetResults
  \/ FacGetReverseResults

SpecFactory == FacInit /\ [][FacNext]_vars

\* the journeys of the last getResults / getReverseResults call
BuiltJourneys ==
  IF facPc = "done" /\ ~facOut.threw
    THEN { facOut.value[n] : n \in DOMAIN facOut.value }
    ELSE {}

\* summed durations of the legs at the positions S (all of them transfers)
RECURSIVE SumDurations(_, _)
SumDurations(legs, S) ==
  IF S = {} THEN 0
  ELSE LET i == CHOOSE x \in S : TRUE
       IN  legs[i].duration + SumDurations(legs, S \ {i})

TimetablePositions(legs) == { i \in DOMAIN legs : "stopTimes" \in DOMAIN legs[i] }

\* C2: in every journey built by getResults or getReverseResults,
\* departureTime is the first stop's departure of the first timetable leg
\* minus the durations of the transfers before it, arrivalTime is the last
\* stop's arrival of the last timetable leg plus the durations of the
\* transfers after it, and both are 0 when there is no timetable leg.
C2_JourneyTimes ==
  \A j \in BuiltJourneys :
    LET tt == TimetablePositions(j.legs)
    IN  IF tt = {}
          THEN j.departureTime = 0 /\ j.arrivalTime = 0
          ELSE LET first == CHOOSE i \in tt : \A o \in tt : i <= o
                   last == CHOOSE i \in tt : \A o \in tt : i >= o
                   lastTimes == j.legs[last].stopTimes
               IN  /\ j.departureTime =
                        j.legs[first].stopTimes[1].departureTime
                          - SumDurations(j.legs, { i \in DOMAIN j.legs : i < first })
                   /\ j.arrivalTime =
                        lastTimes[Len(lastTimes)].arrivalTime
                          + SumDurations(j.legs, { i \in DOMAIN j.legs : i > last })

\* a journey was built whose first timetable leg follows a foot transfer
C2_Witness ==
  \E j \in BuiltJourneys :
    /\ Len(j.legs) = 2
    /\ ~isTimetableLeg(j.legs[1]) /\ isTimetableLeg(j.legs[2])
    /\ j.departureTime = j.legs[2].stopTimes[1].departureTime - j.legs[1].duration
    /\ j.legs[1].duration > 0

\* the stops the forward scan was started from
ScanOrigins ==
  { s \in StopSet : scanResults.kArrivals[0][s] # MAX_SAFE_INTEGER }

\* C3: every journey returned by getResults is a connected chain: consecutive
\* legs meet (leg[i].destination = leg[i+1].origin), the first leg starts at a
\* scan origin and the last leg ends at the requested destination; getResults
\* returns such journeys for every connection index a scan produces.
C3_ConnectedChain ==
  (facPc = "done" /\ ~facReverse) =>
    /\ ~facOut.threw
    /\ \A j \in BuiltJourneys :
         /\ j.legs # <<>>
         /\ \A i \in 1..(Len(j.legs) - 1) : j.legs[i].destination = j.legs[i + 1].origin
         /\ j.legs[1].origin \in ScanOrigins
         /\ j.legs[Len(j.legs)].destination = facStop
\* the leg a trip connection [trip, board, alight] recorded at a stop should
\* become
ExpectedLeg(stop, connection) ==
  LET stopTimes == slice(connection.trip.stopTimes, connection.start, connection.end + 1)
  IN  TimetableLeg(stopTimes, connection.trip.stopTimes[connection.start + 1].stopId,
                   connection.trip.stopTimes[connection.end + 1].stopId, connection.trip)

\* C13: every timetable connection (trip, boardIndex, alightIndex) that
\* getResults walks becomes a leg whose stopTimes are
\* trip.stopTimes[boardIndex..alightIndex] inclusive, whose origin is the
\* stopId of stopTimes[boardIndex] and whose destination is the stopId of
\* stopTimes[alightIndex]; origin and destination are always defined.
C13_TimetableLegs ==
  (facPc = "done" /\ ~facReverse) =>
    /\ ~facOut.threw
    /\ \A k \in DOMAIN scanResults.kConnections[facStop] :
         ~isTransfer(scanResults.kConnections[facStop][k]) =>
           \E j \in BuiltJourneys :
             /\ Len(j.legs) = k
             /\ j.legs[k] = ExpectedLeg(facStop, scanResults.kConnections[facStop][k])
    /\ \A j \in BuiltJourneys : \A i \in TimetablePositions(j.legs) :
         /\ j.legs[i].origin = j.legs[i].stopTimes[1].stopId
         /\ j.legs[i].destination = j.legs[i].stopTimes[Len(j.legs[i].stopTimes)].stopId
         /\ j.legs[i].origin # undefined
         /\ j.legs[i].destination # undefined
\* the connections recorded in the index, of any stop and round
RecordedConnections ==
  UNION { { scanResults.kConnections[s][k] : k \in DOMAIN scanResults.kConnections[s] } :
            s \in StopSet }

\* the leg is a recorded connection: a recorded transfer, or the segment of
\* a recorded trip connection
isRecorded(leg) ==
  IF isTimetableLeg(leg)
    THEN \E c \in RecordedConnections :
           /\ ~isTransfer(c)
           /\ c.trip = leg.trip
           /\ leg.stopTimes = slice(c.trip.stopTimes, c.start, c.end + 1)
    ELSE leg \in RecordedConnections

\* C14: for every stop s with a connection at round k, the round-k journey
\* built by getResults is a chain of recorded connections that uses exactly
\* k trips, ends at s and has the end time kArrivals[k][s], also when the
\* round-k connection at s is a foot transfer whose origin was reached by a
\* trip in the same round k.
C14_RoundJourney ==
  (facPc = "done" /\ ~facReverse) =>
    /\ ~facOut.threw
    /\ LET keys == sortedKeys(DOMAIN scanResults.kConnections[facStop])
       IN  \A n \in DOMAIN keys :
             LET j == facOut.value[n]
             IN  /\ Cardinality(TimetablePositions(j.legs)) = keys[n]
                 /\ \A i \in DOMAIN j.legs : isRecorded(j.legs[i])
                 /\ j.legs # <<>>
                 /\ j.legs[Len(j.legs)].destination = facStop
                 /\ j.arrivalTime = scanResults.kArrivals[keys[n]][facStop]

\* C15: getReverseResults returns every journey in travel order starting at
\* the requested origin: legs[0].origin is the origin, the origin of every
\* timetable leg is the stop of its first stop time and its destination the
\* stop of its last stop time, and consecutive legs connect.
C15_ReverseTravelOrder ==
  (facPc = "done" /\ facReverse) =>
    /\ ~facOut.threw
    /\ \A j \in BuiltJourneys :
         /\ j.legs # <<>>
         /\ j.legs[1].origin = facStop
         /\ \A i \in TimetablePositions(j.legs) :
              /\ j.legs[i].origin = j.legs[i].stopTimes[1].stopId
              /\ j.legs[i].destination = j.legs[i].stopTimes[Len(j.legs[i].stopTimes)].stopId
         /\ \A i \in 1..(Len(j.legs) - 1) : j.legs[i].destination = j.legs[i + 1].origin

\* C23: ScanResultsFactory.create initialises a forward buffer so that for
\* every known stop s, bestArrival[s] is MAX_SAFE_INTEGER, kArrivals[0][s]
\* is origins[s] when s is an origin and MAX_SAFE_INTEGER otherwise, and no
\* stop has a connection at round 0; this holds for every origin time,
\* time 0 (midnight) included.
C23_ForwardInitialisation ==
  (facPc = "scan" /\ ~facReverse /\ scanResults.k = 0) =>
    \A s \in StopSet :
      /\ bestArrival(scanResults, s) = MAX_SAFE_INTEGER
      /\ scanResults.kArrivals[0][s] =
           (IF s \in DOMAIN facOrigins THEN facOrigins[s] ELSE MAX_SAFE_INTEGER)
      /\ scanResults.kConnections[s] = <<>>

\* C24: in every state of a scan buffer reached by addRound, setTrip and
\* setTransfer calls, for every stop s and every round k in which s has a
\* recorded arrival, kArrivals[k][s] >= bestArrival[s] in a forward scan and
\* kArrivals[k][s] <= bestArrival[s] in a reverse scan.
C24_BestArrivalBound ==
  \A k \in DOMAIN scanResults.kArrivals : \A s \in DOMAIN scanResults.kArrivals[k] :
    IF facReverse
      THEN scanResults.kArrivals[k][s] <= bestArrival(scanResults, s)
      ELSE scanResults.kArrivals[k][s] >= bestArrival(scanResults, s)

\* the rounds in which a trip connection was recorded at the stop
TripRounds(s) ==
  { k \in DOMAIN scanResults.kConnections[s] : ~isTransfer(scanResults.kConnections[s][k]) }

\* C25: when the forward scan improves stop p_i in round k by alighting from
\* a trip, the values recorded are the trip's scheduled arrival time at p_i:
\* kArrivals[k][p_i] = arrivalAt and bestArrival[p_i] = arrivalAt (the
\* interchange time is not stored), together with the connection
\* (trip, boardIndex, i) at kConnections[p_i][k].
C25_ForwardRecordsArrival ==
  ~facReverse =>
    \A s \in StopSet : \A k \in TripRounds(s) :
      \E c \in { scanResults.kConnections[s][k] } :
        /\ c.start < c.end
        /\ c.trip.stopTimes[c.end + 1].stopId = s
        /\ scanResults.kArrivals[k][s] = c.trip.stopTimes[c.end + 1].arrivalTime
        /\ (\A later \in DOMAIN scanResults.kConnections[s] : later <= k) =>
             bestArrival(scanResults, s) = c.trip.stopTimes[c.end + 1].arrivalTime

\* C26: the scan buffer is parameterised by direction: a buffer created with
\* reverse = true starts from MIN_SAFE_INTEGER and its setTrip records at the
\* stop of stopTimes[startIndex] the time departureTime[startIndex] -
\* interchange; a buffer created with reverse = false starts from
\* MAX_SAFE_INTEGER and records at the stop of stopTimes[endIndex] the time
\* arrivalTime[endIndex] + interchange.
C26_DirectionParameter ==
  /\ scanResults.reverse = facReverse
  /\ \A s \in StopSet :
       /\ s \notin DOMAIN facOrigins =>
            scanResults.kArrivals[0][s] =
              (IF facReverse THEN MIN_SAFE_INTEGER ELSE MAX_SAFE_INTEGER)
       /\ \A k \in TripRounds(s) :
            \E c \in { scanResults.kConnections[s][k] } :
              IF facReverse
                THEN /\ c.trip.stopTimes[c.start + 1].stopId = s
                     /\ scanResults.kArrivals[k][s] =
                          c.trip.stopTimes[c.start + 1].departureTime - interchangeOf(s)
                ELSE /\ c.trip.stopTimes[c.end + 1].stopId = s
                     /\ scanResults.kArrivals[k][s] =
                          c.trip.stopTimes[c.end + 1].arrivalTime + interchangeOf(s)

(***************************************************************************)
(* Dates.  A Date is held as seconds since midnight of day 0 of the model  *)
(* calendar; the plan only reads and moves the calendar day.               *)
(***************************************************************************)
\* the calendar day of a Date, counted from day 0 (2024-12-31)
dayOf(d) == IF d >= 0 THEN d \div DAY ELSE -((-d + DAY - 1) \div DAY)
\* seconds since local midnight
secondsOf(d) == d - dayOf(d) * DAY
\* Date.prototype.getDay: day 0 is a Tuesday
getDay(d) == (dayOf(d) + 2) % 7
\* DateUtil.getDateNumber: the date as the number YYYYMMDD (days of December
\* 2024 and January 2025)
getDateNumber(d) ==
  IF dayOf(d) >= 1 THEN 20250100 + dayOf(d) ELSE 20241231 + dayOf(d)
\* startDate.setDate(startDate.getDate() + n)
addDays(d, n) == d + n * DAY

(***************************************************************************)
(* RaptorAlgorithm.scanArriveBy                                            *)
(***************************************************************************)
\* "max transfers": the cap on the number of rounds
maxRounds == 8

\* the ordered stop ids of a trip
stopPattern(trip) == [i \in DOMAIN trip.stopTimes |-> trip.stopTimes[i].stopId]
\* a route is the list of the trips with one stop pattern, in timetable order
routesOf(trips) ==
  LET heads == SelectSeq([n \in DOMAIN trips |-> n],
                         LAMBDA n : \A m \in 1..(n - 1) :
                                      stopPattern(trips[m]) # stopPattern(trips[n]))
  IN  [h \in DOMAIN heads |->
         [stops |-> stopPattern(trips[heads[h]]),
          trips |-> SelectSeq(trips, LAMBDA trip :
                                stopPattern(trip) = stopPattern(trips[heads[h]]))]]
routes == routesOf(tripsData)

\* the latest trip of the route that runs on the day and arrives at offset i
\* no later than limit (0 when there is none); of two trips arriving together
\* the one listed first
getTripArrivingBy(route, i, limit, date, dow) ==
  LET ok == { n \in DOMAIN route.trips :
                /\ runsOn(route.trips[n].service, date, dow)
                /\ route.trips[n].stopTimes[i].arrivalTime <= limit }
      arr(n) == route.trips[n].stopTimes[i].arrivalTime
  IN  IF ok = {} THEN 0
      ELSE CHOOSE n \in ok :
             \A m \in ok : arr(n) > arr(m) \/ (arr(n) = arr(m) /\ n <= m)

\* one route traversed backwards from offset `from` (1-based position):
\* at each stop, first record the current trip when it improves the stop,
\* then try to board a later trip from the stop's previous-round time
scanRouteArriveBy(r0, route, from, date, dow) ==
  LET RECURSIVE walk(_, _, _, _)
      walk(i, r, cur, board) ==
        IF i < 1 THEN r
        ELSE
          LET p == route.stops[i]
              ic == interchangeOf(p)
              known == p \in DOMAIN r.kArrivals[r.k - 1]
          IN  bind(<<IF cur # 0 /\
                        route.trips[cur].stopTimes[i].departureTime - ic > bestArrival(r, p)
                       THEN setTrip(r, route.trips[cur], board, i - 1, ic)
                       ELSE r,
                     IF known /\ ~(cur # 0 /\
                          route.trips[cur].stopTimes[i].arrivalTime <= getArrival(r, p) - ic)
                       THEN getTripArrivingBy(route, i, getArrival(r, p) - ic, date, dow)
                       ELSE 0>>,
                   LAMBDA s : IF s[2] # 0 THEN walk(i - 1, s[1], s[2], i - 1)
                                          ELSE walk(i - 1, s[1], cur, board))
  IN  walk(from, r0, 0, 0)

\* step 1 and 2 of a round: every route that serves a marked stop is
\* traversed from the last of its marked stops
scanRoutesArriveBy(r0, marked, date, dow) ==
  LET RECURSIVE each(_, _, _)
      each(rs, n, r) ==
        IF n > Len(rs) THEN r
        ELSE LET offsets == { i \in DOMAIN rs[n].stops : rs[n].stops[i] \in marked }
             IN  IF offsets = {} THEN each(rs, n + 1, r)
                 ELSE bind(scanRouteArriveBy(r, rs[n],
                                             CHOOSE i \in offsets : \A j \in offsets : i >= j,
                                             date, dow),
                           LAMBDA next : each(rs, n + 1, next))
  IN  each(routes, 1, r0)

\* step 3 of a round: foot transfers at the stops a trip marked in this
\* round; the transfer table is reciprocal, so the entries listed under a
\* stop are the transfers that lead to it when walked the other way
applyTransfersArriveBy(r0) ==
  LET byTrip == SelectSeq(stops, LAMBDA p : p \in getMarkedStops(r0))
      RECURSIVE eachTransfer(_, _, _)
      eachTransfer(p, ts, r) ==
        IF ts = <<>> THEN r
        ELSE LET t == Head(ts)
                 time == r0.kArrivals[r0.k][p] - t.duration
             IN  IF time > bestArrival(r, t.destination)
                   THEN bind(setTransfer(r, t, time),
                             LAMBDA next : eachTransfer(p, Tail(ts), next))
                   ELSE eachTransfer(p, Tail(ts), r)
      RECURSIVE eachStop(_, _)
      eachStop(n, r) ==
        IF n > Len(byTrip) THEN r
        ELSE bind(eachTransfer(byTrip[n],
                               IF byTrip[n] \in DOMAIN transfersData
                                 THEN transfersData[byTrip[n]] ELSE <<>>,
                               r),
                  LAMBDA next : eachStop(n + 1, next))
  IN  eachStop(1, r0)

\* scanArriveBy(destinations, date, dow): rounds until nothing was marked
\* or the cap is reached; returns [kConnections, bestArrivals]
scanArriveBy(dests, date, dow) ==
  LET RECURSIVE round(_, _)
      round(r, marked) ==
        IF marked = {} \/ r.k >= maxRounds THEN finalize(r)
        ELSE bind(addRound(r), LAMBDA r1 :
             bind(scanRoutesArriveBy(r1, marked, date, dow), LAMBDA r2 :
             bind(applyTransfersArriveBy(r2), LAMBDA r3 :
               round(r3, getMarkedStops(r3)))))
  IN  bind(create(dests, TRUE), LAMBDA r : round(r, DOMAIN dests))

(***************************************************************************)
(* GroupStationArriveByQuery                                               *)
(***************************************************************************)
\* default of the constructor argument maxSearchDays
DefaultMaxSearchDays == 3

\* destinations.reduce(keyValue(destination => [destination, time]), {})
keyValue(list, time) == [s \in { list[n] : n \in DOMAIN list } |-> time]

\* variant that seeds every stop of the index, reached or not
getFoundStations_allStops(kConnections, bestArrivals) ==
  [s \in DOMAIN kConnections |-> bestArrivals[s] + DAY]

\* getFoundStations: the stops with at least one connection, a day later
getFoundStations(kConnections, bestArrivals) ==
  LET stopsWithAnArrival == { s \in DOMAIN kConnections : DOMAIN kConnections[s] # {} }
  IN  [s \in stopsWithAnArrival |-> bestArrivals[s] + DAY]

\* mergeJourneys
mergeJourneys(journeyA, journeyB) ==
  [legs |-> journeyA.legs \o journeyB.legs,
   departureTime |-> journeyA.departureTime,
   arrivalTime |-> journeyB.arrivalTime - DAY]

\* completeJourneys: for every journey so far, the journeys of the given
\* day's index that lead to legs[0].origin, merged in front of it
completeJourneys(results, kConnections) ==
  LET RECURSIVE each(_, _)
      each(n, acc) ==
        IF n > Len(results) THEN Ok(acc)
        ELSE LET journeyB == results[n]
             IN  IF journeyB.legs = <<>> THEN TypeError
                 ELSE bind(getReverseResults(kConnections, journeyB.legs[1].origin),
                           LAMBDA found :
                             IF found.threw THEN TypeError
                             ELSE each(n + 1,
                                    acc \o [m \in DOMAIN found.value |->
                                              mergeJourneys(found.value[m], journeyB)]))
  IN  each(1, <<>>)

\* getJourneysFromConnections; prevConnections is read in reversed order
\* (the caller's array is reversed in place, see getJourneysStep)
getJourneysFromConnections(kConnections, prevConnections, origins) ==
  LET \* origins.filter(d => Object.keys(kConnections[d]).length > 0)
      RECURSIVE filter(_, _)
      filter(n, acc) ==
        IF n > Len(origins) THEN Ok(acc)
        ELSE IF origins[n] \notin DOMAIN kConnections THEN TypeError
        ELSE filter(n + 1, IF DOMAIN kConnections[origins[n]] # {}
                             THEN Append(acc, origins[n]) ELSE acc)
      \* .flatMap(d => this.resultsFactory.getReverseResults(kConnections, d))
      RECURSIVE flatMap(_, _, _)
      flatMap(list, n, acc) ==
        IF n > Len(list) THEN Ok(acc)
        ELSE bind(getReverseResults(kConnections, list[n]), LAMBDA found :
               IF found.threw THEN TypeError ELSE flatMap(list, n + 1, acc \o found.value))
      \* prevConnections.reverse().reduce(completeJourneys, initialResults)
      RECURSIVE reduce(_, _)
      reduce(prev, journeys) ==
        IF prev = <<>> THEN Ok(journeys)
        ELSE bind(completeJourneys(journeys, Head(prev)), LAMBDA next :
               IF next.threw THEN TypeError ELSE reduce(Tail(prev), next.value))
  IN  bind(filter(1, <<>>), LAMBDA originsWithResults :
        IF originsWithResults.threw THEN TypeError
        ELSE bind(flatMap(originsWithResults.value, 1, <<>>), LAMBDA initialResults :
               IF initialResults.threw THEN TypeError
               ELSE reduce(reverseSeq(prevConnections), initialResults.value)))

\* the state of one plan call: the locals of getJourneys, the caller's Date
\* (startDate is mutated by setDate), the result and the log
PlanState(origins, dests, date, i, indexes, out, log, pc) ==
  [origins |-> origins, destinations |-> dests, startDate |-> date, i |-> i,
   connectionIndexes |-> indexes, out |-> out, log |-> log, pc |-> pc]

\* what a day's scan found: its index, `reached` when some stop has a
\* connection, `yields` when some requested origin has one
scanLog(kConnections, origins) ==
  [index |-> kConnections,
   reached |-> \E s \in DOMAIN kConnections : DOMAIN kConnections[s] # {},
   yields |-> \E n \in DOMAIN origins :
                origins[n] \in DOMAIN kConnections /\ DOMAIN kConnections[origins[n]] # {}]

\* one iteration of the loop of getJourneys, or its exit with []
getJourneysStep(q, maxDays) ==
  IF q.i >= maxDays THEN [q EXCEPT !.out = Ok(<<>>), !.pc = "done"]
  ELSE
    LET date == getDateNumber(q.startDate)
        dayOfWeek == getDay(q.startDate)
    IN  bind(scanArriveBy(q.destinations, date, dayOfWeek), LAMBDA scan :
        bind(getJourneysFromConnections(scan[1], q.connectionIndexes, q.origins), LAMBDA results :
          LET kConnections == scan[1]
              bestArrivals == scan[2]
              log == Append(q.log, scanLog(kConnections, q.origins))
          IN  IF results.threw
                THEN [q EXCEPT !.out = TypeError, !.log = log, !.pc = "done"]
              ELSE IF Len(results.value) > 0
                THEN [q EXCEPT !.out = results, !.log = log, !.pc = "done",
                               !.connectionIndexes = reverseSeq(q.connectionIndexes)]
              ELSE [q EXCEPT !.destinations = getFoundStations(kConnections, bestArrivals),
                             !.startDate = addDays(q.startDate, -1),
                             !.connectionIndexes =
                                Append(reverseSeq(q.connectionIndexes), kConnections),
                             !.i = q.i + 1,
                             !.log = log]))

\* plan(origins, destinations, date, time) run to its end (no filters, the
\* constructor's default)
RECURSIVE getJourneys(_, _)
getJourneys(q, maxDays) ==
  IF q.pc = "done" THEN q
  ELSE bind(getJourneysStep(q, maxDays), LAMBDA next : getJourneys(next, maxDays))

plan(origins, dests, date, time, maxDays) ==
  bind(PlanState(origins, keyValue(dests, time), date, 0, <<>>, undefined, <<>>, "loop"),
       LAMBDA q : getJourneys(q, maxDays).out)

\* the plan calls the model makes; stop 9 is in no trip and no transfer
PlanOriginLists == { <<"5">>, <<"3">>, <<"1">>, <<"9">>, <<"1", "9">>, <<"3", "5">>, <<"24">> }
PlanDestinationLists == { <<"4">>, <<"4", "9">>, <<"3">>, <<"20">> }
PlanTimes == { 2400, 20000, 31000, 84000 }
\* calendar days of the reference date: 1 = Wed 2025-01-01 .. 3 = Fri 2025-01-03
NumPlanDays == 3
\* the largest maxSearchDays a query is constructed with
MaxSearchDays == 4

PlanInit ==
  /\ SvcIdle /\ FacIdle /\ MatchIdle /\ DelayIdle /\ LoadIdle /\ ReciprocalIdle
  /\ planOrigins \in PlanOriginLists
  /\ planDestinations \in PlanDestinationLists
  /\ planTime \in PlanTimes
  /\ maxSearchDays \in 1..MaxSearchDays
  /\ \E day \in 1..NumPlanDays : startDate = day * DAY + planTime
  /\ destinations = keyValue(planDestinations, planTime)
  /\ connectionIndexes = <<>>
  /\ planI = 0
  /\ planOut = undefined
  /\ planLog = <<>>
  /\ planPc = "loop"

planState ==
  PlanState(planOrigins, destinations, startDate, planI, connectionIndexes,
            planOut, planLog, planPc)

PlanApply(q) ==
  /\ destinations' = q.destinations
  /\ startDate' = q.startDate
  /\ planI' = q.i
  /\ connectionIndexes' = q.connectionIndexes
  /\ planOut' = q.out
  /\ planLog' = q.log
  /\ planPc' = q.pc
  /\ UNCHANGED <<planOrigins, planDestinations, planTime, maxSearchDays>>
  /\ UNCHANGED <<svcVars, facVars, matchVars, delayVars, loadVars, reciprocalVars>>

\* one pass of the loop of getJourneys: a scan, then the results or the
\* step to the previous day
PlanScanDay ==
  /\ planPc = "loop"
  /\ planI < maxSearchDays
  /\ \E q \in { getJourneysStep(planState, maxSearchDays) } : PlanApply(q)

\* the loop ran out of days: return []
PlanReturnEmpty ==
  /\ planPc = "loop"
  /\ planI >= maxSearchDays
  /\ \E q \in { getJourneysStep(planState, maxSearchDays) } : PlanApply(q)

PlanNext == PlanScanDay \/ PlanReturnEmpty

SpecPlan == PlanInit /\ [][PlanNext]_vars

\* the Date the caller passed (startDate has been moved back planI days)
referenceDate == addDays(startDate, planI)
\* the days (1 = the reference day) whose scan gave some origin a connection
YieldingDays == { n \in DOMAIN planLog : planLog[n].yields }
KnownStops(list) == \A n \in DOMAIN list : list[n] \in StopSet

\* C4: plan ends after at most maxSearchDays scans; it returns the journeys
\* of the first day whose scan yields a result for some origin, and when no
\* scanned day yields a result it returns the empty list, without raising
\* an error.
C4_PlanBoundedDays ==
  (planPc = "done" /\ KnownStops(planOrigins) /\ KnownStops(planDestinations)) =>
    /\ ~planOut.threw
    /\ Len(planLog) <= maxSearchDays
    /\ IF YieldingDays = {}
         THEN planOut.value = <<>>
         ELSE /\ planOut.value # <<>>
              /\ Len(planLog) = CHOOSE n \in YieldingDays : \A m \in YieldingDays : n <= m

\* a list without the stops that are not in the timetable
knownOnly(list) == SelectSeq(list, LAMBDA s : s \in StopSet)

\* C5: in a plan call, an origin or destination that is in no trip counts as
\* absent: the stop raises no exception, the call ends as the call without
\* that stop ends.
C5_UnknownStopAbsent ==
  (planPc = "done" /\ ~(KnownStops(planOrigins) /\ KnownStops(planDestinations))) =>
    /\ planOut = plan(knownOnly(planOrigins), knownOnly(planDestinations),
                      referenceDate, planTime, maxSearchDays)

\* the scan of the day before the reference day, open until the reference
\* time of the next morning
previousDayScan ==
  scanArriveBy(keyValue(planDestinations, planTime + DAY),
               getDateNumber(addDays(referenceDate, -1)), getDay(addDays(referenceDate, -1)))
\* the journeys that scan holds for the requested origins
PreviousDayJourneys ==
  UNION { UNION { IF found.threw THEN {} ELSE { found.value[m] : m \in DOMAIN found.value }
                  : found \in { IF planOrigins[n] \in DOMAIN kc
                                  THEN getReverseResults(kc, planOrigins[n]) ELSE Ok(<<>>)
                                : n \in DOMAIN planOrigins } }
          : kc \in { previousDayScan[1] } }

\* C6: when the reference day's scan reaches no stop at all and the day
\* before holds a trip chain from an origin to a destination, plan with
\* maxSearchDays >= 2 returns a non-empty list that contains that journey.
C6_MultiDayRobust ==
  ( /\ planPc = "done" /\ maxSearchDays >= 2
    /\ KnownStops(planOrigins) /\ KnownStops(planDestinations)
    /\ ~planLog[1].reached
    /\ PreviousDayJourneys # {} ) =>
    /\ ~planOut.threw
    /\ \E n \in DOMAIN planOut.value :
         \E j \in PreviousDayJourneys : planOut.value[n].legs = j.legs

\* a scan ended without a result and the loop goes on to the next one
FailedScanStep ==
  planPc = "loop" /\ planPc' = "loop" /\ planI' = planI + 1

\* C16: after an arrive-by day scan that gave no result, the next scan runs
\* on the previous calendar day (with that day's weekday) and is seeded with
\* exactly the stops the failed scan reached (those with at least one
\* recorded connection), each with the time bestArrival[s] + 86400; a stop
\* the failed scan did not reach is not seeded.
C16_NextDaySeed ==
  [][ FailedScanStep =>
        \E scan \in { scanArriveBy(destinations, getDateNumber(startDate), getDay(startDate)) } :
          /\ dayOf(startDate') = dayOf(startDate) - 1
          /\ secondsOf(startDate') = secondsOf(startDate)
          /\ getDay(startDate') = (getDay(startDate) + 6) % 7
          /\ DOMAIN destinations' = { s \in DOMAIN scan[1] : DOMAIN scan[1][s] # {} }
          /\ \A s \in DOMAIN destinations' : destinations'[s] = scan[2][s] + DAY ]_vars

\* a failed scan reached stops that were no destination of it, and the
\* following scan is seeded with them and not with every stop
C16_Witness ==
  /\ planPc = "loop" /\ planI = 1
  /\ planLog[1].reached /\ ~planLog[1].yields
  /\ \E s \in DOMAIN destinations : \A n \in DOMAIN planDestinations : planDestinations[n] # s
  /\ \E s \in StopSet : s \notin DOMAIN destinations

\* the journeys a plan call returned after exactly one failed scan, each
\* with its seam: <<journey, n>> where the first n legs are a journey of the
\* saved index (the reference day) found at the stop the rest starts from
StitchedJourneys ==
  IF planPc = "done" /\ planI = 1 /\ ~planOut.threw
    THEN { jn \in { << planOut.value[m], n >> :
                      m \in DOMAIN planOut.value, n \in 1..MaxK + 1 } :
             /\ jn[2] < Len(jn[1].legs)
             /\ \E found \in { getReverseResults(connectionIndexes[1],
                                                 jn[1].legs[jn[2] + 1].origin) } :
                  /\ ~found.threw
                  /\ \E a \in DOMAIN found.value :
                       found.value[a].legs = SubSeq(jn[1].legs, 1, jn[2]) }
    ELSE {}

\* the stop a leg leaves from and the stop it reaches, read from its stop
\* times when it has some, from its named ends otherwise
legFrom(leg) == IF isTimetableLeg(leg) THEN leg.stopTimes[1].stopId ELSE leg.origin
legTo(leg) ==
  IF isTimetableLeg(leg) THEN leg.stopTimes[Len(leg.stopTimes)].stopId ELSE leg.destination

\* C17: in every journey stitched across days, the legs of the portions are
\* concatenated in travel order and stay connected at the seam: the portion
\* placed first ends at the stop where the portion placed after it begins,
\* the journey starts at a requested origin and ends at a requested
\* destination.
C17_StitchedInTravelOrder ==
  \A jn \in StitchedJourneys :
    LET legs == jn[1].legs
        n == jn[2]
    IN  /\ legs[n].destination = legs[n + 1].origin
        /\ legTo(legs[n]) = legFrom(legs[n + 1])
        /\ \E o \in DOMAIN planOrigins : legFrom(legs[1]) = planOrigins[o]
        /\ \E d \in DOMAIN planDestinations : legTo(legs[Len(legs)]) = planDestinations[d]

\* the two portions of a stitched journey: the legs before the seam and the
\* legs after it
portionBefore(jn) == SubSeq(jn[1].legs, 1, jn[2])
portionAfter(jn) == SubSeq(jn[1].legs, jn[2] + 1, Len(jn[1].legs))

\* C18: when an arrive-by journey is stitched from two days' portions, the
\* other day's portion is shifted by +86400 seconds relative to the portion
\* it is merged with, so that departureTime and arrivalTime of the merged
\* journey are on one common day basis: the departure is that of the portion
\* travelled first, the arrival that of the portion travelled last plus
\* 86400 (whichever of the two portions is travelled first).
C18_StitchedDayBasis ==
  \A jn \in StitchedJourneys :
    \/ /\ jn[1].departureTime = getDepartureTime(portionBefore(jn))
       /\ jn[1].arrivalTime = getArrivalTime(portionAfter(jn)) + DAY
    \/ /\ jn[1].departureTime = getDepartureTime(portionAfter(jn))
       /\ jn[1].arrivalTime = getArrivalTime(portionBefore(jn)) + DAY

\* the first boarding and the last alighting of a portion with a timetable
\* leg, on the day basis of the scan that found it
firstBoarding(legs) ==
  legs[CHOOSE i \in TimetablePositions(legs) : \A o \in TimetablePositions(legs) : i <= o]
    .stopTimes[1].departureTime
lastAlighting(legs) ==
  bind(legs[CHOOSE i \in TimetablePositions(legs) : \A o \in TimetablePositions(legs) : i >= o]
         .stopTimes,
       LAMBDA stopTimes : stopTimes[Len(stopTimes)].arrivalTime)

\* C19: every journey stitched across midnight satisfies at its seam that the
\* first leg of the later segment boards no earlier than the last alighting
\* of the earlier segment plus the minimum interchange time, both times on
\* the same day basis.  The portion before the seam comes from the reference
\* day's scan, the portion after it from the scan of the day before, whose
\* times count from that day's midnight; the earlier segment is taken to be
\* either the previous day's portion or the portion placed first.
C19_SeamInterchange ==
  \A jn \in StitchedJourneys :
    ( /\ TimetablePositions(portionBefore(jn)) # {}
      /\ TimetablePositions(portionAfter(jn)) # {} ) =>
      \/ firstBoarding(portionBefore(jn)) + DAY
           >= lastAlighting(portionAfter(jn)) + MIN_INTERCHANGE_TIME
      \/ firstBoarding(portionAfter(jn))
           >= lastAlighting(portionBefore(jn)) + DAY + MIN_INTERCHANGE_TIME

\* C28: when stitching after d unsuccessful days, getJourneysFromConnections
\* applies the saved connection indices from the most recently scanned day
\* back to the first scanned (reference) day, each exactly once, for every
\* d < maxSearchDays and every maxSearchDays (4 and more included).  The
\* indices are applied in the reversed order of the saved list.
C28_StitchOrder ==
  (planPc = "loop" /\ planI < maxSearchDays) =>
    reverseSeq(connectionIndexes) = [n \in 1..planI |-> planLog[planI + 1 - n].index]

\* C29: GroupStationArriveByQuery.plan modifies only its own per-query
\* state: no step of the call changes the Date object the caller passed, so
\* that after it returns the Date still denotes the reference date, whatever
\* number of days were scanned.
C29_CallerDateKept == [][startDate' = startDate]_vars


(***************************************************************************)
(* Trip re-matching: findMatchingTrip and POST /itineraire/delay           *)
(***************************************************************************)
\* a value that may be null is held as a list of at most one element
null == <<>>
Some(v) == <<v>>
Error == [threw |-> TRUE, value |-> "Error"]

\* the largest number that Number() and toString() convert in the model
MaxNumber == 99
\* Number(s) of a decimal string
Number(s) == CHOOSE n \in 0..MaxNumber : ToString(n) = s
\* n.toString()
toString(n) == ToString(n)

\* new Date(year, month, day, hours, minutes, seconds): out-of-range hours
\* carry into the following days
newDate(day, hours, minutes, seconds) == day * DAY + hours * 3600 + minutes * 60 + seconds
\* timeToDate(time, baseDate)
timeToDate(time, baseDate) ==
  newDate(dayOf(baseDate), time \div 3600, (time \div 60) % 60, (time % 60))
\* TimeParser.getTimeFromDate(date)
getTimeFromDate(date) ==
  (secondsOf(date) \div 3600) * 3600 + ((secondsOf(date) \div 60) % 60) * 60
    + (secondsOf(date) % 60)
\* new Date(s) of a string that is no date: getTime() is NaN
InvalidDate == MIN_SAFE_INTEGER
isNaN(date) == date = InvalidDate

\* Array.prototype.indexOf / lastIndexOf (0-based, -1 when absent)
indexOf(sequence, x) ==
  IF \E i \in DOMAIN sequence : sequence[i] = x
    THEN (CHOOSE i \in DOMAIN sequence :
            sequence[i] = x /\ \A j \in 1..(i - 1) : sequence[j] # x) - 1
    ELSE -1
lastIndexOf(sequence, x) ==
  IF \E i \in DOMAIN sequence : sequence[i] = x
    THEN (CHOOSE i \in DOMAIN sequence :
            sequence[i] = x /\ \A j \in (i + 1)..Len(sequence) : sequence[j] # x) - 1
    ELSE -1
\* trip.stopTimes.map(stop => stop.stopId)
stopIds(stopTimes) == [i \in DOMAIN stopTimes |-> stopTimes[i].stopId]

\* isSubsequence(subsequence, sequence): only the first and the last stop of
\* the subsequence are looked up
isSubsequence(subsequence, sequence) ==
  IF Len(sequence) < Len(subsequence) THEN FALSE
  ELSE LET first == Prop(subsequence, 1)
           last == Prop(subsequence, Len(subsequence))
           firstIndex == indexOf(sequence, first)
           lastIndex == lastIndexOf(sequence, last)
       IN  firstIndex # -1 /\ lastIndex # -1 /\ firstIndex < lastIndex

\* getSubSequence(subsequence, sequence): both ends by findIndex (the first
\* occurrence); throws when one is missing or they are out of order
getSubSequence(subsequence, sequence) ==
  IF Len(subsequence) = 0 THEN Ok(<<>>)
  ELSE LET startIndex == indexOf(stopIds(sequence), subsequence[1])
           endIndex == indexOf(stopIds(sequence), subsequence[Len(subsequence)])
       IN  IF startIndex = -1 \/ endIndex = -1 \/ startIndex > endIndex
             THEN Error
             ELSE Ok(slice(sequence, startIndex, endIndex + 1))

MatchingTrip(tripId, terminusId, subSequence) ==
  [tripId |-> tripId, terminusId |-> terminusId, subSequence |-> subSequence]

\* [...entries].sort((a, b) => a[0].getTime() - b[0].getTime()): stable
RECURSIVE sortEntries(_)
sortEntries(entries) ==
  IF entries = <<>> THEN <<>>
  ELSE bind(sortEntries(SubSeq(entries, 1, Len(entries) - 1)), LAMBDA sorted :
         bind(entries[Len(entries)], LAMBDA e :
           bind(Cardinality({ i \in DOMAIN sorted : sorted[i].key <= e.key }), LAMBDA at :
             SubSeq(sorted, 1, at) \o <<e>> \o SubSeq(sorted, at + 1, Len(sorted)))))

\* findMatchingTrip(stopSequence, trips, ligneId, directionId, date, partir);
\* the Map is keyed by Date objects, so no entry replaces another
findMatchingTrip(stopSequence, trips, ligneId, directionId, date, partir) ==
  LET RECURSIVE each(_, _)
      each(n, matchingTrips) ==
        IF n > Len(trips) THEN Ok(matchingTrips)
        ELSE IF Number(trips[n].routeId) # ligneId THEN each(n + 1, matchingTrips)
        ELSE IF Number(trips[n].directionId) # directionId THEN each(n + 1, matchingTrips)
        ELSE IF ~runsOn(trips[n].service, getDateNumber(date), getDay(date))
          THEN each(n + 1, matchingTrips)
        ELSE IF ~isSubsequence(stopSequence, stopIds(trips[n].stopTimes))
          THEN each(n + 1, matchingTrips)
        ELSE bind(getSubSequence(stopSequence, trips[n].stopTimes), LAMBDA subsequence :
          IF subsequence.threw THEN Error
          ELSE IF subsequence.value = <<>> THEN TypeError
          ELSE bind(timeToDate(IF partir
                                 THEN subsequence.value[1].departureTime
                                 ELSE subsequence.value[Len(subsequence.value)].departureTime,
                               date),
                    LAMBDA tripDate :
            IF (partir /\ tripDate < date) \/ (~partir /\ tripDate > date)
              THEN each(n + 1, matchingTrips)
              ELSE each(n + 1,
                     Append(matchingTrips,
                       [key |-> tripDate,
                        value |-> MatchingTrip(
                          Number(trips[n].id),
                          Number(trips[n].stopTimes[Len(trips[n].stopTimes)].stopId),
                          subsequence.value)]))))
  IN  bind(each(1, <<>>), LAMBDA matchingTrips :
        IF matchingTrips.threw THEN matchingTrips
        ELSE bind(sortEntries(matchingTrips.value), LAMBDA sortedTrips :
               IF Len(sortedTrips) = 0 THEN Ok(null)
               ELSE IF partir THEN Ok(Some(sortedTrips[1].value))
               ELSE Ok(Some(sortedTrips[Len(sortedTrips)].value))))


\* the calls of findMatchingTrip the model makes: leg stop sequences (whole
\* patterns, parts of patterns, one stop, none, a reversed one), route and
\* direction numbers, anchors on the first calendar days
MatchStopSequences ==
  { <<"1", "2", "3">>, <<"1", "3">>, <<"1", "2">>, <<"2", "3">>, <<"3", "4">>,
    <<"2", "1">>, <<"2", "1", "2">>, <<"3">>, <<"4", "3">>, <<>> }
MatchLigneIds == { 1, 2, 3 }
MatchDirectionIds == { 0, 1 }
MatchTimes == { 21600, 28800, 29130, 29300, 36300, 40000 }
\* calendar days of the anchor: 1 = Wed 2025-01-01, 2 = Thu 2025-01-02
NumMatchDays == 2

MatchInit ==
  /\ SvcIdle /\ FacIdle /\ PlanIdle /\ DelayIdle /\ LoadIdle /\ ReciprocalIdle
  /\ fmStopSequence \in MatchStopSequences
  /\ fmLigneId \in MatchLigneIds
  /\ fmDirectionId \in MatchDirectionIds
  /\ fmDate \in { day * DAY + time : day \in 1..NumMatchDays, time \in MatchTimes }
  /\ fmPartir \in BOOLEAN
  /\ fmOut = undefined
  /\ fmPc = "call"

CallFindMatchingTrip ==
  /\ fmPc = "call"
  /\ fmOut' = findMatchingTrip(fmStopSequence, tripsData, fmLigneId, fmDirectionId,
                               fmDate, fmPartir)
  /\ fmPc' = "done"
  /\ UNCHANGED <<fmStopSequence, fmLigneId, fmDirectionId, fmDate, fmPartir>>
  /\ UNCHANGED <<svcVars, facVars, planVars, delayVars, loadVars, reciprocalVars>>

MatchNext == CallFindMatchingTrip

SpecMatch == MatchInit /\ [][MatchNext]_vars

\* the leg's first stop occurs before its last stop in the trip
firstBeforeLast(leg, trip) ==
  /\ leg # <<>>
  /\ \E i, j \in DOMAIN trip.stopTimes :
       i < j /\ trip.stopTimes[i].stopId = leg[1] /\ trip.stopTimes[j].stopId = leg[Len(leg)]
\* a trip qualifies for the call
Qualifies(trip) ==
  /\ Number(trip.routeId) = fmLigneId
  /\ Number(trip.directionId) = fmDirectionId
  /\ runsOn(trip.service, getDateNumber(fmDate), getDay(fmDate))
  /\ firstBeforeLast(fmStopSequence, trip)
\* the slice of a qualifying trip: from the first occurrence of the leg's
\* first stop to the last occurrence of the leg's last stop
sliceFirstDeparture(trip) ==
  trip.stopTimes[indexOf(stopIds(trip.stopTimes), fmStopSequence[1]) + 1].departureTime
sliceLastArrival(trip) ==
  trip.stopTimes[lastIndexOf(stopIds(trip.stopTimes),
                             fmStopSequence[Len(fmStopSequence)]) + 1].arrivalTime
\* the instant of a timetable time on the anchor's calendar day
onAnchorDay(time) == dayOf(fmDate) * DAY + time
\* the qualifying trips on the right side of the anchor
MatchCandidates ==
  { trip \in elements(tripsData) :
      /\ Qualifies(trip)
      /\ IF fmPartir THEN onAnchorDay(sliceFirstDeparture(trip)) >= fmDate
                     ELSE onAnchorDay(sliceLastArrival(trip)) <= fmDate }

\* C7: findMatchingTrip with depart=true returns the qualifying trip whose
\* slice departs first at or after the anchor, with depart=false the
\* qualifying trip whose slice arrives last at or before the anchor, and
\* null exactly when no trip qualifies; a trip qualifies when route and
\* direction equal the leg's, its service runs on the anchor's date and
\* weekday, and the leg's first stop occurs before its last stop in the trip.
C7_FindMatchingTrip ==
  fmPc = "done" =>
    /\ ~fmOut.threw
    /\ IF MatchCandidates = {} THEN fmOut.value = null
       ELSE /\ fmOut.value # null
            /\ \E trip \in MatchCandidates :
                 /\ Number(trip.id) = fmOut.value[1].tripId
                 /\ \A other \in MatchCandidates :
                      IF fmPartir
                        THEN sliceFirstDeparture(trip) <= sliceFirstDeparture(other)
                        ELSE sliceLastArrival(trip) >= sliceLastArrival(other)

\* the trips that pass every test of findMatchingTrip before the comparison
\* with the anchor, and whose slice arrives at its last stop at or before
\* the anchor
ArrivingByAnchor ==
  { trip \in elements(tripsData) :
      /\ Number(trip.routeId) = fmLigneId
      /\ Number(trip.directionId) = fmDirectionId
      /\ runsOn(trip.service, getDateNumber(fmDate), getDay(fmDate))
      /\ isSubsequence(fmStopSequence, stopIds(trip.stopTimes))
      /\ \E subsequence \in { getSubSequence(fmStopSequence, trip.stopTimes) } :
           /\ ~subsequence.threw
           /\ subsequence.value # <<>>
           /\ timeToDate(subsequence.value[Len(subsequence.value)].arrivalTime, fmDate)
                <= fmDate }

\* C20: with depart=false, findMatchingTrip accepts a trip only on the
\* arrival time at the last stop of the matched slice: a trip qualifies iff
\* that arrival is at or before the anchor, so a trip that arrives at the
\* last stop before the anchor and leaves it after the anchor still
\* qualifies.
C20_ArriveByLastArrival ==
  (fmPc = "done" /\ ~fmPartir /\ ~fmOut.threw) =>
    /\ fmOut.value # null <=> ArrivingByAnchor # {}
    /\ fmOut.value # null =>
         \E trip \in ArrivingByAnchor : Number(trip.id) = fmOut.value[1].tripId

\* C27: whenever isSubsequence accepts a (leg stop sequence, trip) pair,
\* getSubSequence on the same pair does not throw and returns a non-empty
\* slice that starts at the leg's first stop and ends at the leg's last
\* stop, also for a trip that visits one of these stops more than once.
C27_SubSequenceTotal ==
  fmPc = "done" =>
    \A trip \in elements(tripsData) :
      isSubsequence(fmStopSequence, stopIds(trip.stopTimes)) =>
        \E subsequence \in { getSubSequence(fmStopSequence, trip.stopTimes) } :
          /\ ~subsequence.threw
          /\ subsequence.value # <<>>
          /\ subsequence.value[1].stopId = fmStopSequence[1]
          /\ subsequence.value[Len(subsequence.value)].stopId
               = fmStopSequence[Len(fmStopSequence)]


(***************************************************************************)
(* formatJourney and the handler of POST /itineraire/delay                 *)
(***************************************************************************)
\* StationDetail and TripDetail; logical_id and nom come from the station
\* directory, which holds every stop of the timetable, and are left out
StationDetail(physical_id, time) == [physical_id |-> physical_id, time |-> time]
TripDetail(ligne_id, direction_id, stationDetails) ==
  [ligne_id |-> ligne_id, direction_id |-> direction_id, stations |-> stationDetails]

\* tripsData.find(trip => trip.id === id)
findTrip(trips, id) ==
  IF \E n \in DOMAIN trips : trips[n].id = id
    THEN Some(trips[CHOOSE n \in DOMAIN trips :
                      trips[n].id = id /\ \A m \in 1..(n - 1) : trips[m].id # id])
    ELSE null

\* formatJourney(journey, date, ...) without walks: the trip details of the
\* timetable legs, the departure and arrival times, and the calendar day of
\* `date` (its midnight); null when no leg is a timetable leg
formatJourney(journey, date) ==
  LET RECURSIVE each(_, _)
      each(n, tripDetails) ==
        IF n > Len(journey.legs) THEN tripDetails
        ELSE IF "trip" \notin DOMAIN journey.legs[n] THEN each(n + 1, tripDetails)
        ELSE bind(journey.legs[n], LAMBDA leg :
             bind(findTrip(tripsData, leg.trip.id), LAMBDA found :
               IF found = null THEN each(n + 1, tripDetails)
               ELSE each(n + 1,
                      Append(tripDetails,
                        TripDetail(
                          Number(leg.trip.routeId),
                          << Number(leg.trip.directionId),
                             Number(found[1].stopTimes[Len(found[1].stopTimes)].stopId),
                             Number(leg.trip.id) >>,
                          [m \in DOMAIN leg.stopTimes |->
                             StationDetail(Number(leg.stopTimes[m].stopId),
                                           leg.stopTimes[m].departureTime)])))))
  IN  bind(each(1, <<>>), LAMBDA tripDetails :
        IF Len(tripDetails) = 0 THEN null
        ELSE Some([date |-> dayOf(date) * DAY,
                   heure_depart |-> journey.departureTime,
                   heure_destination |-> journey.arrivalTime,
                   duration |-> journey.arrivalTime - journey.departureTime,
                   trip_details |-> tripDetails]))

\* res.status(code).json(body)
json(status, body) == Ok([status |-> status, body |-> body])

noMatchingTrips_partial(newTrip) == json(200, newTrip)

\* if (!matchingTrip) return res.status(400).json({ error: ... }): the legs
\* matched so far (newTrip) are dropped
noMatchingTrips(newTrip) == json(400, [error |-> "No matching trips found."])

\* the leg pushed for a matched trip; the time of a station is the departure
\* time (depart) or the arrival time (arrive-by) of its stop
rematchedLeg(tripDetail, matchingTrip, headTime, partir) ==
  TripDetail(
    tripDetail.ligne_id,
    << tripDetail.direction_id[1], matchingTrip.terminusId, matchingTrip.tripId >>,
    [m \in DOMAIN matchingTrip.subSequence |->
       StationDetail(
         Number(matchingTrip.subSequence[m].stopId),
         getTimeFromDate(timeToDate(IF partir
                                      THEN matchingTrip.subSequence[m].departureTime
                                      ELSE matchingTrip.subSequence[m].arrivalTime,
                                    headTime)))])

\* tripDetail.stations.map(station => station.physical_id.toString())
stopSequenceOf(tripDetail) ==
  [m \in DOMAIN tripDetail.stations |-> toString(tripDetail.stations[m].physical_id)]

\* the handler: [res, matches] with the response (or the exception that
\* leaves the handler) and the values findMatchingTrip returned
delayHandler(tripDetails, partir, date) ==
  LET RECURSIVE forward(_, _, _, _)
      forward(n, headTime, newTrip, matches) ==
        IF n > Len(tripDetails) THEN [res |-> json(200, newTrip), matches |-> matches]
        ELSE bind(findMatchingTrip(stopSequenceOf(tripDetails[n]), tripsData,
                                   tripDetails[n].ligne_id, tripDetails[n].direction_id[1],
                                   headTime, partir),
                  LAMBDA matchingTrip :
          IF matchingTrip.threw THEN [res |-> matchingTrip, matches |-> matches]
          ELSE IF matchingTrip.value = null
            THEN [res |-> noMatchingTrips(newTrip), matches |-> Append(matches, null)]
          ELSE bind(matchingTrip.value[1], LAMBDA m :
                 forward(n + 1,
                         timeToDate(m.subSequence[Len(m.subSequence)].departureTime, headTime)
                           + MIN_INTERCHANGE_TIME,
                         Append(newTrip, rematchedLeg(tripDetails[n], m, headTime, partir)),
                         Append(matches, matchingTrip.value))))
      RECURSIVE backward(_, _, _, _)
      backward(i, headTime, newTrip, matches) ==
        IF i < 1 THEN [res |-> json(200, newTrip), matches |-> matches]
        ELSE bind(findMatchingTrip(stopSequenceOf(tripDetails[i]), tripsData,
                                   tripDetails[i].ligne_id, tripDetails[i].direction_id[1],
                                   headTime, partir),
                  LAMBDA matchingTrip :
          IF matchingTrip.threw THEN [res |-> matchingTrip, matches |-> matches]
          ELSE IF matchingTrip.value = null
            THEN [res |-> noMatchingTrips(newTrip), matches |-> Append(matches, null)]
          ELSE bind(matchingTrip.value[1], LAMBDA m :
                 backward(i - 1,
                          timeToDate(m.subSequence[1].arrivalTime, headTime)
                            - MIN_INTERCHANGE_TIME,
                          <<rematchedLeg(tripDetails[i], m, headTime, partir)>> \o newTrip,
                          Append(matches, matchingTrip.value))))
  IN  IF isNaN(date)
        THEN [res |-> json(400, [error |-> "Missing required parameters."]),
              matches |-> <<>>]
      ELSE IF partir THEN forward(1, date, <<>>, <<>>)
      ELSE backward(Len(tripDetails), date, <<>>, <<>>)


\* the plan calls whose journeys are re-matched: an after-midnight trip of
\* the Wednesday service day, the Wednesday express, a plain trip, a ride on
\* the loop line, the evening feeder
PlannedQueries ==
  { [origins |-> <<"3">>, destinations |-> <<"4">>, day |-> 1, time |-> 88000],
    [origins |-> <<"1">>, destinations |-> <<"3">>, day |-> 1, time |-> 26000],
    [origins |-> <<"1">>, destinations |-> <<"3">>, day |-> 2, time |-> 30000],
    [origins |-> <<"1">>, destinations |-> <<"2">>, day |-> 2, time |-> 37000],
    [origins |-> <<"5">>, destinations |-> <<"3">>, day |-> 2, time |-> 84000] }

\* the journeys of one plan call as the client receives them
plannedJourneys(q) ==
  bind(plan(q.origins, q.destinations, q.day * DAY, q.time, 1), LAMBDA journeys :
    IF journeys.threw THEN {}
    ELSE { formatted[1] :
             formatted \in { formatJourney(journeys.value[n], q.day * DAY) :
                               n \in DOMAIN journeys.value } \ { null } })

\* trip details a client holds from a depart-after journey: trip 11 from
\* stop 1 to stop 3, then trip 21 from stop 3 to stop 4
twoLegs ==
  formatJourney(Journey(<< TimetableLeg(T11.stopTimes, "1", "3", T11),
                           TimetableLeg(T21.stopTimes, "3", "4", T21) >>), DAY)[1].trip_details
\* the same with a line number that no trip has, on the last or the first leg
UnknownLigneId == 9
ClientTripDetails ==
  { twoLegs,
    << twoLegs[1], [twoLegs[2] EXCEPT !.ligne_id = UnknownLigneId] >>,
    << [twoLegs[1] EXCEPT !.ligne_id = UnknownLigneId], twoLegs[2] >>,
    <<>> }

DelayTimes == { 600, 27000, 30000, 40000 }
\* calendar days of newDate: 1 = Wed 2025-01-01, 2 = Thu 2025-01-02
NumDelayDays == 2
DelayDates ==
  { day * DAY + time : day \in 1..NumDelayDays, time \in DelayTimes } \cup { InvalidDate }

\* the names under which a client sends the direction flag: `partir` (read by
\* the handler) and `isAller` (the README's example request)
FlagNames == { "partir", "isAller" }
\* req.body: tripDetails, newDate (held as the Date that new Date(newDate)
\* gives) and the direction flag under the name the client chose
RequestBody(tripDetails, date, flagName, flag) ==
  [tripDetails |-> tripDetails, newDate |-> date] @@ (flagName :> flag)

DelayInit ==
  /\ SvcIdle /\ FacIdle /\ PlanIdle /\ MatchIdle /\ LoadIdle /\ ReciprocalIdle
  /\ \E flagName \in FlagNames : \E flag \in BOOLEAN :
       \/ \E q \in PlannedQueries : \E formatted \in plannedJourneys(q) :
            /\ delayPlanned = Some(formatted)
            /\ \E date \in DelayDates \cup
                               { timeToDate(formatted.heure_depart, formatted.date) } :
                 delayBody = RequestBody(formatted.trip_details, date, flagName, flag)
       \/ /\ delayPlanned = null
          /\ \E tripDetails \in ClientTripDetails : \E date \in DelayDates :
               delayBody = RequestBody(tripDetails, date, flagName, flag)
  /\ delayTripDetails = <<>>
  /\ delayPartir = FALSE
  /\ delayNewDate = 0
  /\ delayRes = undefined
  /\ delayMatches = <<>>
  /\ delayPc = "request"

\* the handler: const { tripDetails, partir, newDate } = req.body (a field
\* the body does not have is undefined, which is falsy), then the re-match
PostDelay ==
  /\ delayPc = "request"
  /\ delayTripDetails' = delayBody.tripDetails
  /\ delayPartir' = truthyAt(delayBody, "partir")
  /\ delayNewDate' = delayBody.newDate
  /\ \E out \in { delayHandler(delayBody.tripDetails, truthyAt(delayBody, "partir"),
                                delayBody.newDate) } :
       /\ delayRes' = out.res
       /\ delayMatches' = out.matches
  /\ delayPc' = "done"
  /\ UNCHANGED <<delayPlanned, delayBody>>
  /\ UNCHANGED <<svcVars, facVars, planVars, matchVars, loadVars, reciprocalVars>>

DelayNext == PostDelay

SpecDelay == DelayInit /\ [][DelayNext]_vars

\* the request was answered with the list of re-matched legs
Rematched == delayPc = "done" /\ ~delayRes.threw /\ delayRes.value.status = 200

\* C8: every leg of a successful re-match has the route, the direction and
\* exactly the ordered stop sequence of the corresponding leg of the prior
\* journey: all the requested stops, in the same order, and no others.
C8_SameLegs ==
  Rematched =>
    /\ Len(delayRes.value.body) = Len(delayTripDetails)
    /\ \A n \in DOMAIN delayTripDetails :
         /\ delayRes.value.body[n].ligne_id = delayTripDetails[n].ligne_id
         /\ delayRes.value.body[n].direction_id[1] = delayTripDetails[n].direction_id[1]
         /\ \E trip \in elements(tripsData) :
              /\ Number(trip.id) = delayRes.value.body[n].direction_id[3]
              /\ Number(trip.routeId) = delayTripDetails[n].ligne_id
              /\ Number(trip.directionId) = delayTripDetails[n].direction_id[1]
         /\ stopSequenceOf(delayRes.value.body[n]) = stopSequenceOf(delayTripDetails[n])

\* findMatchingTrip found no trip for some leg of the request
SomeLegUnmatched == \E n \in DOMAIN delayMatches : delayMatches[n] = null

\* C9: re-matching is all-or-nothing: when findMatchingTrip finds no trip for
\* a leg, the request is answered with the failure and with no list of legs,
\* in the depart order and in the arrive-by order; a list that is returned
\* holds one re-matched leg for each leg of the prior journey.
C9_AllOrNothing ==
  delayPc = "done" =>
    /\ SomeLegUnmatched =>
         /\ ~delayRes.threw
         /\ delayRes.value.status = 400
         /\ DOMAIN delayRes.value.body = { "error" }
    /\ Rematched =>
         /\ ~SomeLegUnmatched
         /\ Len(delayRes.value.body) = Len(delayTripDetails)
         /\ Len(delayMatches) = Len(delayTripDetails)

\* an arrive-by re-match whose last leg was matched and whose first leg was
\* not: the matched leg is not returned
C9_Witness ==
  /\ delayPc = "done"
  /\ ~delayPartir
  /\ Len(delayMatches) = 2
  /\ delayMatches[1] # null /\ delayMatches[2] = null
  /\ ~delayRes.threw /\ delayRes.value.status = 400

\* the planned journey of the request, re-matched as a departure at its own
\* departure date and time
OwnDeparture ==
  /\ delayPlanned # null
  /\ delayPartir
  /\ delayNewDate = timeToDate(delayPlanned[1].heure_depart, delayPlanned[1].date)

\* C10: re-matching a just-planned journey with depart=true at its own
\* departure date and time returns legs whose first leg departs at exactly
\* that time, also when the first departure is at or after 24:00:00 of the
\* service day.
C10_Idempotent ==
  (delayPc = "done" /\ OwnDeparture) =>
    /\ Rematched
    /\ Len(delayRes.value.body) >= 1
    /\ delayRes.value.body[1].stations[1].time = getTimeFromDate(delayNewDate)


\* the request carries its direction flag as the README's example does
ReadmeRequest == "isAller" \in DOMAIN delayBody /\ ~isNaN(delayBody.newDate)

\* C11: a request built as the README documents (tripDetails, newDate,
\* isAller) is re-matched in the depart direction when isAller is true (legs
\* first to last, each with the earliest trip at or after the running
\* anchor) and in the arrive-by direction when isAller is false.
C11_ReadmeDirection ==
  (delayPc = "done" /\ ReadmeRequest) =>
    delayRes = delayHandler(delayBody.tripDetails, delayBody.isAller, delayBody.newDate).res


(***************************************************************************)
(* loadGTFS                                                                *)
(***************************************************************************)
\* Number.NaN
NaN == MIN_SAFE_INTEGER
\* TimeParser.getTime(time): a time string "hh:mm:ss" is held as the list of
\* its parts; a part that is missing is undefined and makes the sum NaN
getTime(time) ==
  IF Len(time) >= 3 THEN time[1] * 3600 + time[2] * 60 + time[3] ELSE NaN

\* the weekday columns of a calendar row, by DayOfWeek
DayColumns ==
  << "sunday", "monday", "tuesday", "wednesday", "thursday", "friday", "saturday" >>

\* loadGTFS() on the parsed files; a property that is assigned undefined is
\* held as a missing property. start_date, end_date and stop_sequence are
\* held as numbers.
\* The stops index is built but not returned and is left out.
loadGTFS(files) ==
  LET RECURSIVE eachCalendar(_, _)
      eachCalendar(n, calendars) ==
        IF n > Len(files.calendar) THEN calendars
        ELSE bind(files.calendar[n], LAMBDA row :
               eachCalendar(n + 1,
                 Assign(calendars, row.service_id,
                        [serviceId |-> row.service_id,
                         startDate |-> row.start_date,
                         endDate |-> row.end_date,
                         days |-> [d \in DaysOfWeek |-> row[DayColumns[d + 1]] = "1"],
                         include |-> <<>>])))
      RECURSIVE eachCalendarDate(_, _)
      eachCalendarDate(n, calendars) ==
        IF n > Len(files.calendarDates) THEN calendars
        ELSE bind(files.calendarDates[n], LAMBDA row :
               eachCalendarDate(n + 1,
                 IF row.service_id \in DOMAIN calendars
                   THEN [calendars EXCEPT ![row.service_id].include =
                           Assign(@, row.date, row.exception_type = "1")]
                   ELSE calendars))
      RECURSIVE eachStopTime(_, _)
      eachStopTime(n, stopTimesIndex) ==
        IF n > Len(files.stopTimes) THEN stopTimesIndex
        ELSE bind(files.stopTimes[n], LAMBDA row :
               IF row.stop_id = "" \/ row.trip_id = ""
                  \/ row.departure_time = <<>> \/ row.arrival_time = <<>>
                  \/ isNaN(getTime(row.departure_time)) \/ isNaN(getTime(row.arrival_time))
                 THEN eachStopTime(n + 1, stopTimesIndex)
                 ELSE eachStopTime(n + 1,
                        Assign(stopTimesIndex, row.trip_id,
                               Append(IF row.trip_id \in DOMAIN stopTimesIndex
                                        THEN stopTimesIndex[row.trip_id] ELSE <<>>,
                                      ST(row.stop_id, getTime(row.arrival_time),
                                         getTime(row.departure_time))
                                        @@ [stopSequence |-> row.stop_sequence]))))
      RECURSIVE eachTransfer(_, _)
      eachTransfer(n, out) ==
        IF n > Len(files.transfers) THEN out
        ELSE bind(files.transfers[n], LAMBDA row :
               IF row.from_stop_id = "" THEN eachTransfer(n + 1, out)
               ELSE IF row.from_stop_id = row.to_stop_id
                 THEN eachTransfer(n + 1,
                        [out EXCEPT !.interchange = Assign(@, row.from_stop_id, 0)])
               ELSE eachTransfer(n + 1,
                      [out EXCEPT !.transfers =
                         Assign(@, row.from_stop_id,
                                Append(IF row.from_stop_id \in DOMAIN @
                                         THEN @[row.from_stop_id] ELSE <<>>,
                                       Transfer(row.from_stop_id, row.to_stop_id,
                                                IF row.min_transfer_time # 0
                                                  THEN row.min_transfer_time
                                                  ELSE MIN_INTERCHANGE_TIME)))]))
  IN  bind(eachCalendarDate(1, eachCalendar(1, <<>>)), LAMBDA calendars :
      bind([serviceId \in DOMAIN calendars |->
              [startDate |-> calendars[serviceId].startDate,
               endDate |-> calendars[serviceId].endDate,
               days |-> calendars[serviceId].days,
               dates |-> calendars[serviceId].include]], LAMBDA services :
      bind(eachStopTime(1, <<>>), LAMBDA stopTimesIndex :
      bind(SelectSeq(files.trips, LAMBDA row : row.trip_id # ""), LAMBDA rows :
      bind(eachTransfer(1, [transfers |-> <<>>, interchange |-> <<>>]), LAMBDA out :
        Ok([trips |->
              [n \in DOMAIN rows |->
                 [id |-> rows[n].trip_id, serviceId |-> rows[n].service_id,
                  routeId |-> rows[n].route_id, directionId |-> rows[n].direction_id]
                 @@ (IF rows[n].trip_id \in DOMAIN stopTimesIndex
                       THEN [stopTimes |-> stopTimesIndex[rows[n].trip_id]] ELSE <<>>)
                 @@ (IF rows[n].service_id \in DOMAIN services
                       THEN [service |-> services[rows[n].service_id]] ELSE <<>>)],
            transfers |-> out.transfers,
            interchange |-> out.interchange]))))))


\* the feeds the model loads: calendars A (daily) and B (Wednesdays), an
\* exception for A or for a service without calendar, trips t1 and t2 on a
\* known or an unknown service or without id, stop-time rows (complete, with
\* a time that does not parse, with no time, for no trip, with a departure
\* after the next arrival, listed against their stop_sequence), transfer rows
\* (a self-transfer, a walk of 0 seconds, a pair of walks, no origin)
Feeds ==
  LET cal(id, S) ==
        [service_id |-> id, start_date |-> 20241201, end_date |-> 20250131,
         sunday |-> IF 0 \in S THEN "1" ELSE "0", monday |-> IF 1 \in S THEN "1" ELSE "0",
         tuesday |-> IF 2 \in S THEN "1" ELSE "0", wednesday |-> IF 3 \in S THEN "1" ELSE "0",
         thursday |-> IF 4 \in S THEN "1" ELSE "0", friday |-> IF 5 \in S THEN "1" ELSE "0",
         saturday |-> IF 6 \in S THEN "1" ELSE "0"]
      exc(id, type) == [service_id |-> id, date |-> 20250101, exception_type |-> type]
      trip(id, service) ==
        [trip_id |-> id, service_id |-> service, route_id |-> "1", direction_id |-> "0"]
      st(id, seq, stop, arr, dep) ==
        [trip_id |-> id, stop_sequence |-> seq, stop_id |-> stop,
         arrival_time |-> arr, departure_time |-> dep]
      tr(from, to, time) ==
        [from_stop_id |-> from, to_stop_id |-> to, min_transfer_time |-> time]
  IN  [ calendar : { <<>>, << cal("A", DaysOfWeek) >>, << cal("A", DaysOfWeek), cal("B", {3}) >> },
        calendarDates : { <<>>, << exc("A", "2") >>, << exc("Z", "1") >> },
        trips : { << trip("t1", "A") >>, << trip("t1", "Z") >>,
                  << trip("t1", "A"), trip("t2", "B") >>,
                  << trip("", "A"), trip("t1", "A") >> },
        stopTimes : { <<>>,
                      << st("t1", 1, "1", <<8, 0, 0>>, <<8, 0, 0>>),
                         st("t1", 2, "2", <<8, 5, 0>>, <<8, 6, 0>>) >>,
                      << st("t1", 1, "1", <<8, 0, 0>>, <<8, 0, 0>>),
                         st("t2", 1, "1", <<24, 10, 0>>, <<24, 10, 0>>),
                         st("t1", 2, "2", <<8, 5, 0>>, <<8, 6, 0>>),
                         st("t2", 2, "2", <<24, 20, 0>>, <<24, 20, 0>>) >>,
                      << st("t1", 1, "1", <<8, 0>>, <<8, 0, 0>>),
                         st("t1", 2, "2", <<>>, <<8, 6, 0>>),
                         st("", 3, "2", <<8, 5, 0>>, <<8, 6, 0>>) >>,
                      << st("t1", 1, "1", <<8, 10, 0>>, <<8, 10, 0>>),
                         st("t1", 2, "2", <<8, 5, 0>>, <<8, 6, 0>>) >>,
                      << st("t1", 2, "2", <<8, 5, 0>>, <<8, 6, 0>>),
                         st("t1", 1, "1", <<8, 0, 0>>, <<8, 0, 0>>) >> },
        transfers : { <<>>, << tr("3", "3", 60) >>, << tr("3", "6", 0) >>,
                      << tr("3", "6", 300), tr("6", "3", 300), tr("", "3", 10) >> } ]

LoadInit ==
  /\ SvcIdle /\ FacIdle /\ PlanIdle /\ MatchIdle /\ DelayIdle /\ ReciprocalIdle
  /\ feed \in Feeds
  /\ loadOut = undefined
  /\ loadPc = "call"

CallLoadGTFS ==
  /\ loadPc = "call"
  /\ loadOut' = loadGTFS(feed)
  /\ loadPc' = "done"
  /\ UNCHANGED feed
  /\ UNCHANGED <<svcVars, facVars, planVars, matchVars, delayVars, reciprocalVars>>

LoadNext == CallLoadGTFS

SpecLoad == LoadInit /\ [][LoadNext]_vars

\* the trip rows that loadGTFS keeps
KeptTripRows == { row \in elements(feed.trips) : row.trip_id # "" }
\* a kept trip names a service without calendar, or has no stop-time row
MalformedFeed ==
  \E row \in KeptTripRows :
    \/ \A c \in elements(feed.calendar) : c.service_id # row.service_id
    \/ \A s \in elements(feed.stopTimes) : s.trip_id # row.trip_id

\* C12: when a trip references a serviceId without calendar, or has no
\* stop-times, loadGTFS fails; it never returns a trip whose service or
\* stopTimes is undefined.
C12_MalformedFeedFails ==
  loadPc = "done" =>
    /\ MalformedFeed => loadOut.threw
    /\ ~loadOut.threw =>
         \A n \in DOMAIN loadOut.value.trips :
           /\ "service" \in DOMAIN loadOut.value.trips[n]
           /\ "stopTimes" \in DOMAIN loadOut.value.trips[n]

\* the stop-time rows of a trip that loadGTFS keeps, in file order
KeptStopTimeRows(tripId) ==
  SelectSeq(feed.stopTimes, LAMBDA row :
    /\ row.trip_id = tripId /\ row.stop_id # ""
    /\ ~isNaN(getTime(row.departure_time)) /\ ~isNaN(getTime(row.arrival_time)))
\* some kept trip has two rows, consecutive by stop_sequence, where the
\* departure of the first is after the arrival of the second
BackwardsFeed ==
  \E trip \in KeptTripRows :
    \E a, b \in elements(KeptStopTimeRows(trip.trip_id)) :
      /\ b.stop_sequence = a.stop_sequence + 1
      /\ getTime(a.departure_time) > getTime(b.arrival_time)

\* C21: after loadGTFS succeeds, every trip has its stop times in
\* stop-sequence order with departureTime[i] <= arrivalTime[i+1] for every
\* pair of consecutive stop times; a feed that violates this is rejected at
\* load time.
C21_MonotoneStopTimes ==
  loadPc = "done" =>
    /\ BackwardsFeed => loadOut.threw
    /\ ~loadOut.threw =>
         \A n \in DOMAIN loadOut.value.trips :
           "stopTimes" \in DOMAIN loadOut.value.trips[n] =>
             \A i \in 1..(Len(loadOut.value.trips[n].stopTimes) - 1) :
               /\ loadOut.value.trips[n].stopTimes[i].stopSequence
                    <= loadOut.value.trips[n].stopTimes[i + 1].stopSequence
               /\ loadOut.value.trips[n].stopTimes[i].departureTime
                    <= loadOut.value.trips[n].stopTimes[i + 1].arrivalTime

\* the transfer rows with an origin, and the Transfers loadGTFS returned
TransferRows == { row \in elements(feed.transfers) : row.from_stop_id # "" }
LoadedTransfers ==
  UNION { elements(loadOut.value.transfers[o]) : o \in DOMAIN loadOut.value.transfers }

\* C22: loadGTFS partitions the transfer rows: a row whose origin equals its
\* destination produces no Transfer and sets the interchange entry of the
\* stop to the row's min_transfer_time; every other row produces exactly one
\* Transfer, stored under its origin, with origin # destination and the
\* row's min_transfer_time (0 included) as duration.
C22_TransferPartition ==
  (loadPc = "done" /\ ~loadOut.threw) =>
    /\ \A row \in TransferRows :
         IF row.from_stop_id = row.to_stop_id
           THEN /\ row.from_stop_id \in DOMAIN loadOut.value.interchange
                /\ loadOut.value.interchange[row.from_stop_id] = row.min_transfer_time
           ELSE /\ row.from_stop_id \in DOMAIN loadOut.value.transfers
                /\ \E tr \in elements(loadOut.value.transfers[row.from_stop_id]) :
                     /\ tr.origin = row.from_stop_id
                     /\ tr.destination = row.to_stop_id
                     /\ tr.duration = row.min_transfer_time
    /\ \A tr \in LoadedTransfers : tr.origin # tr.destination /\ tr.duration >= 0
    /\ Cardinality(LoadedTransfers)
         = Cardinality({ row \in TransferRows : row.from_stop_id # row.to_stop_id })

(***************************************************************************)
(* Reciprocal transfers (transfers_replacement.ts)                          *)
(***************************************************************************)
\* the most rows of transfers.json a run reads
MaxRawTransfers == 2

\* a row of transfers.json; min_transfer_time is optional
RawTransfer ==
  [from_stop_id : {"3", "6", "7"}, to_stop_id : {"3", "6", "7"}, transfer_type : {"2"}]
    \cup [from_stop_id : {"3", "6", "7"}, to_stop_id : {"3", "6", "7"},
          transfer_type : {"2"}, min_transfer_time : {120}]

\* `${from_stop_id}-${to_stop_id}`
pairKey(from_stop_id, to_stop_id) == from_stop_id \o "-" \o to_stop_id

\* the row makeTransfersReciprocal pushes for a transfer
pushedTransfer(transfer) ==
  IF "min_transfer_time" \in DOMAIN transfer
    THEN [from_stop_id |-> transfer.from_stop_id, to_stop_id |-> transfer.to_stop_id,
          transfer_type |-> transfer.transfer_type,
          min_transfer_time |-> transfer.min_transfer_time]
    ELSE [from_stop_id |-> transfer.from_stop_id, to_stop_id |-> transfer.to_stop_id,
          transfer_type |-> transfer.transfer_type]

RECURSIVE addReciprocals(_, _, _, _)
\* the second forEach of makeTransfersReciprocal, from its i-th transfer
addReciprocals(transfers, i, updatedTransfers, seenPairs) ==
  IF i > Len(transfers) THEN updatedTransfers
  ELSE bind(pairKey(transfers[i].from_stop_id, transfers[i].to_stop_id),
            LAMBDA reciprocalKey :
              IF reciprocalKey \notin seenPairs
                THEN addReciprocals(transfers, i + 1,
                                    Append(updatedTransfers, pushedTransfer(transfers[i])),
                                    seenPairs \cup {reciprocalKey})
                ELSE addReciprocals(transfers, i + 1, updatedTransfers, seenPairs))

makeTransfersReciprocal(transfers) ==
  addReciprocals(transfers, 1, transfers,
                 { pairKey(transfers[i].from_stop_id, transfers[i].to_stop_id) :
                     i \in 1..Len(transfers) })

ReciprocalInit ==
  /\ SvcIdle /\ FacIdle /\ PlanIdle /\ MatchIdle /\ DelayIdle /\ LoadIdle
  /\ rawTransfers \in UNION { [1..n -> RawTransfer] : n \in 0..MaxRawTransfers }
  /\ reciprocalTransfers = undefined
  /\ reciprocalPc = "call"

CallMakeTransfersReciprocal ==
  /\ reciprocalPc = "call"
  /\ reciprocalTransfers' = makeTransfersReciprocal(rawTransfers)
  /\ reciprocalPc' = "done"
  /\ UNCHANGED rawTransfers
  /\ UNCHANGED <<svcVars, facVars, planVars, matchVars, delayVars, loadVars>>

ReciprocalNext == CallMakeTransfersReciprocal

SpecReciprocal == ReciprocalInit /\ [][ReciprocalNext]_vars

\* C30: after makeTransfersReciprocal the transfer list is symmetric: for
\* every transfer from stop A to stop B in the result there is also a
\* transfer from B to A, and every input transfer is still present.
C30_ReciprocalTransfers ==
  reciprocalPc = "done" =>
    /\ \A transfer \in elements(reciprocalTransfers) :
         \E back \in elements(reciprocalTransfers) :
           /\ back.from_stop_id = transfer.to_stop_id
           /\ back.to_stop_id = transfer.from_stop_id
    /\ \A transfer \in elements(rawTransfers) :
         transfer \in elements(reciprocalTransfers)

=============================================================================
